---- MODULE Spec2Model ----
(***************************************************************************)
(* ArchieAI: the API key store (api.py, class APIKeyManager, duplicated    *)
(* verbatim in src/app.py) run by concurrent request threads, and the      *)
(* streaming bridges (api_archie_stream in src/app.py, chat_stream in      *)
(* api.py) that turn the chunks of an asynchronous producer into frames.   *)
(***************************************************************************)
EXTENDS Integers, Sequences, FiniteSets, TLC

\* ------------------------------------------------------------------ bounds
NumThreads == 3
MaxOps == 4
MaxKeys == 2
MaxChunks == 3
MaxStartUsage == 1
MaxSMOps == 3
MaxSessions == 4
MaxSessionOps == 2

\* --------------------------------------------------------------- key store
Threads == 1..NumThreads
KeyIds == 1..MaxKeys
Owners == {"alice@x", "bob@x"}

\* "last_used": None
NoTime == 0

\* f"archie_{secrets.token_urlsafe(32)}": the secret created for key id k
NewSecret(k) == [prefix |-> "archie_", token |-> k]
\* the empty string presented as a credential
EmptySecret == [prefix |-> "", token |-> 0]
\* a well-formed secret that was never issued
BogusSecret == [prefix |-> "archie_", token |-> 0]
Secrets == {NewSecret(k) : k \in KeyIds} \cup {EmptySecret, BogusSecret}

\* hashlib.sha256(api_key.encode()).hexdigest(): injective on the secrets
_hash_key_Plain(api_key) == api_key

_hash_key(api_key) == [sha256 |-> api_key]

\* results of the operations
RetNone == [kind |-> "none"]
RetBool(b) == [kind |-> "bool", val |-> b]
RetMeta(key_data) == [kind |-> "meta", data |-> key_data]
RetGen(key_id, api_key, owner_email) ==
    [kind |-> "gen", key_id |-> key_id, api_key |-> api_key, owner_email |-> owner_email]

NoCall == [op |-> "none"]

VARIABLES
    keys,       \* api_keys.json: key_id -> key record
    lock,       \* holder of APIKeyManager._lock, 0 when free
    clock,      \* datetime.now() as a logical clock
    nextKey,    \* number of key ids drawn so far
    kpc,        \* per thread: position in the running call
    kcall,      \* per thread: the call and its arguments
    ksnap,      \* per thread: the local `keys` loaded from the file
    kret,       \* per thread: the value returned by the last call
    ops,        \* number of calls started
    revoked,    \* key ids for which a revoke_api_key call has returned True
    lastWrite,  \* the call that wrote api_keys.json last
    usage0      \* usage_count of key 1 in the api_keys.json the process found

kvars == <<keys, lock, clock, nextKey, kpc, kcall, ksnap, kret, ops, revoked, lastWrite,
           usage0>>

VARIABLES
    bridge,         \* the handler serving the request: "web" or "api"
    session_id,     \* the session_id cookie of the request (empty when absent)
    spc,            \* position of the response generator
    chunks,         \* the chunks the producer has yielded so far
    frames,         \* the frames put on the wire so far
    full_response,  \* the local accumulator of generate()
    sessions,       \* sessions/<id>.json: id -> session record
    analytics,      \* analytics.json of the collector the handler uses
    loop,           \* the event loop of the request
    exc,            \* the exception caught by generate(), if any
    calls           \* the persistence calls generate() has made

svars == <<bridge, session_id, spc, chunks, frames, full_response, sessions,
           analytics, loop, exc, calls>>

\* everything of the streaming request but the session files
reqvars == <<bridge, session_id, spc, chunks, frames, full_response,
             analytics, loop, exc, calls>>

VARIABLES
    users,      \* users.json: email -> user record
    mpc,        \* per thread: position in the running SessionManager call
    mcall,      \* per thread: the call, its arguments, the files it found
    msnap,      \* per thread: what the call has loaded (users or a session)
    mret,       \* per thread: the value returned by the last call
    mops,       \* number of SessionManager calls started
    nextSid,    \* number of session ids drawn so far
    fslog,      \* the accesses made to files of the sessions directory
    registered  \* the create_user calls that have returned True

mvars == <<users, mpc, mcall, msnap, mret, mops, nextSid, fslog, registered>>

VARIABLES
    files       \* whether api_keys.json, users.json and each session file can be read

vars == <<kvars, svars, mvars, files>>

Free == 0

\* `with self._lock:` can be entered
LockAvailable_NoMutex(t) == TRUE

LockAvailable(t) == lock = Free

\* json.dump of a dict with one more entry
Put_Only(f, k, v) == [x \in {k} |-> v]

Put(f, k, v) == [x \in (DOMAIN f) \cup {k} |-> IF x = k THEN v ELSE f[x]]

EmptyStore == [k \in {} |-> 0]

\* a backing file is there and parses, is missing, or does not parse
FileStates == {"ok", "absent", "corrupt"}

\* open(..., "w") and json.dump leave a file that parses; os.remove takes a
\* session file away
SavedKeys == [files EXCEPT !.keys = "ok"]
SavedUsers == [files EXCEPT !.users = "ok"]
SavedSession(sid) == [files EXCEPT !.sessions = @ \ {sid}]

\* _load_keys: the whole document, {} on FileNotFoundError / JSONDecodeError
_load_keys == IF files.keys = "ok" THEN keys ELSE EmptyStore

\* _load_users: the whole document, {} on FileNotFoundError / JSONDecodeError
_load_users_Raw == users

_load_users == IF files.users = "ok" THEN users ELSE EmptyStore

\* every backing file is there and parses
FilesInit == files = [keys |-> "ok", users |-> "ok", sessions |-> {}]

\* the record generate_api_key stores under keys[key_id]
NewKeyRecord(key_id, api_key, owner_email) ==
    [key_id |-> key_id, key_hash |-> _hash_key(api_key), name |-> "app",
     owner_email |-> owner_email, last_used |-> NoTime,
     is_active |-> TRUE, usage_count |-> 0]

\* ids whose record matches the digest and is active (validate_api_key's scan)
Matches(snap, key_hash) ==
    {k \in DOMAIN snap : snap[k].key_hash = key_hash /\ snap[k].is_active}

\* the increment of validate_api_key
BumpUsage_Twice(n) == n + 2

BumpUsage(n) == n + 1

\* the flag revoke_api_key stores
RevokedFlag_Keep(b) == b

RevokedFlag(b) == FALSE

\* a request thread that is running no call takes up the next one
Begin(t, call) ==
    /\ kpc[t] \in {"idle", "done"}
    /\ ops < MaxOps
    /\ ops' = ops + 1
    /\ kcall' = [kcall EXCEPT ![t] = call]

\* validate_api_key, up to `with self._lock`
validate_begin(t, api_key) ==
    /\ Begin(t, [op |-> "validate", api_key |-> api_key,
                 afterRevoke |-> \E k \in revoked : api_key = NewSecret(k),
                 fresh |-> FALSE])
    /\ IF api_key = EmptySecret
         THEN kpc' = [kpc EXCEPT ![t] = "done"]
         ELSE kpc' = [kpc EXCEPT ![t] = "v_wait"]
    /\ kret' = [kret EXCEPT ![t] = RetNone]
    /\ UNCHANGED <<keys, lock, clock, nextKey, ksnap, revoked, lastWrite>>
    /\ UNCHANGED <<usage0, svars, mvars, files>>

\* with self._lock:
validate_acquire(t) ==
    /\ kpc[t] = "v_wait"
    /\ LockAvailable(t)
    /\ lock' = t
    /\ kpc' = [kpc EXCEPT ![t] = "v_locked"]
    /\ UNCHANGED <<keys, clock, nextKey, kcall, ksnap, kret, ops, revoked, lastWrite>>
    /\ UNCHANGED <<usage0, svars, mvars, files>>

\* keys = self._load_keys()
validate_load(t) ==
    /\ kpc[t] = "v_locked"
    /\ ksnap' = [ksnap EXCEPT ![t] = _load_keys]
    /\ kcall' = [kcall EXCEPT ![t].fresh =
                    lastWrite.op = "generate" /\ kcall[t].api_key = NewSecret(lastWrite.key_id)]
    /\ kpc' = [kpc EXCEPT ![t] = "v_loaded"]
    /\ UNCHANGED <<keys, lock, clock, nextKey, kret, ops, revoked, lastWrite>>
    /\ UNCHANGED <<usage0, svars, mvars, files>>

\* the scan, the update of the matching record, the save and the return
validate_finish(t) ==
    /\ kpc[t] = "v_loaded"
    /\ LET snap == ksnap[t]
           m == Matches(snap, _hash_key(kcall[t].api_key))
       IN IF m # {}
            THEN LET k == CHOOSE x \in m : TRUE
                     key_data == [snap[k] EXCEPT !.last_used = clock,
                                                 !.usage_count = BumpUsage(@)]
                 IN /\ keys' = Put(snap, k, key_data)
                    /\ files' = SavedKeys
                    /\ kret' = [kret EXCEPT ![t] = RetMeta(key_data)]
                    /\ clock' = clock + 1
                    /\ lastWrite' = [op |-> "validate", key_id |-> k]
            ELSE /\ kret' = [kret EXCEPT ![t] = RetNone]
                 /\ UNCHANGED <<keys, clock, lastWrite, files>>
    /\ lock' = Free
    /\ kpc' = [kpc EXCEPT ![t] = "done"]
    /\ ksnap' = [ksnap EXCEPT ![t] = EmptyStore]
    /\ UNCHANGED <<nextKey, kcall, ops, revoked>>
    /\ UNCHANGED <<usage0, svars, mvars>>

\* generate_api_key: keys = self._load_keys() and the fresh id and secret
generate_load(t, owner_email) ==
    /\ nextKey < MaxKeys
    /\ Begin(t, [op |-> "generate", key_id |-> nextKey + 1, owner_email |-> owner_email])
    /\ nextKey' = nextKey + 1
    /\ ksnap' = [ksnap EXCEPT ![t] = _load_keys]
    /\ kpc' = [kpc EXCEPT ![t] = "g_loaded"]
    /\ kret' = [kret EXCEPT ![t] = RetNone]
    /\ UNCHANGED <<keys, lock, clock, revoked, lastWrite>>
    /\ UNCHANGED <<usage0, svars, mvars, files>>

\* generate_api_key: keys[key_id] = {...}; self._save_keys(keys); return {...}
generate_save(t) ==
    /\ kpc[t] = "g_loaded"
    /\ LET key_id == kcall[t].key_id
           api_key == NewSecret(key_id)
       IN /\ keys' = Put(ksnap[t], key_id, NewKeyRecord(key_id, api_key, kcall[t].owner_email))
          /\ kret' = [kret EXCEPT ![t] = RetGen(key_id, api_key, kcall[t].owner_email)]
          /\ lastWrite' = [op |-> "generate", key_id |-> key_id]
    /\ files' = SavedKeys
    /\ kpc' = [kpc EXCEPT ![t] = "done"]
    /\ ksnap' = [ksnap EXCEPT ![t] = EmptyStore]
    /\ UNCHANGED <<lock, clock, nextKey, kcall, ops, revoked>>
    /\ UNCHANGED <<usage0, svars, mvars>>

\* revoke_api_key: keys = self._load_keys() and the two early returns
revoke_load(t, key_id, owner_email) ==
    /\ Begin(t, [op |-> "revoke", key_id |-> key_id, owner_email |-> owner_email])
    /\ LET snap == _load_keys
       IN IF key_id \notin DOMAIN snap
            THEN /\ kpc' = [kpc EXCEPT ![t] = "done"]
                 /\ UNCHANGED ksnap
            ELSE IF snap[key_id].owner_email # owner_email
                   THEN /\ kpc' = [kpc EXCEPT ![t] = "done"]
                        /\ UNCHANGED ksnap
                   ELSE /\ kpc' = [kpc EXCEPT ![t] = "r_loaded"]
                        /\ ksnap' = [ksnap EXCEPT ![t] = snap]
    /\ kret' = [kret EXCEPT ![t] = RetBool(FALSE)]
    /\ UNCHANGED <<keys, lock, clock, nextKey, revoked, lastWrite>>
    /\ UNCHANGED <<usage0, svars, mvars, files>>

\* revoke_api_key: keys[key_id]["is_active"] = False; save; return True
revoke_save(t) ==
    /\ kpc[t] = "r_loaded"
    /\ LET key_id == kcall[t].key_id
           snap == ksnap[t]
       IN /\ keys' = Put(snap, key_id,
                         [snap[key_id] EXCEPT !.is_active = RevokedFlag(@)])
          /\ revoked' = revoked \cup {key_id}
          /\ lastWrite' = [op |-> "revoke", key_id |-> key_id]
    /\ files' = SavedKeys
    /\ kret' = [kret EXCEPT ![t] = RetBool(TRUE)]
    /\ kpc' = [kpc EXCEPT ![t] = "done"]
    /\ ksnap' = [ksnap EXCEPT ![t] = EmptyStore]
    /\ UNCHANGED <<lock, clock, nextKey, kcall, ops>>
    /\ UNCHANGED <<usage0, svars, mvars>>

\* the entry list_keys builds for a record: the metadata without key_hash
ListEntry_WithHash(key_data) == key_data

ListEntry(key_data) ==
    [key_id |-> key_data.key_id, name |-> key_data.name,
     last_used |-> key_data.last_used, is_active |-> key_data.is_active,
     usage_count |-> key_data.usage_count]

\* keys.items() filtered by owner: the dict keeps insertion order, which is
\* the order of the ids
RECURSIVE UserKeys(_, _, _)
UserKeys(snap, owner_email, from) ==
    IF from > MaxKeys THEN <<>>
    ELSE (IF from \in DOMAIN snap /\ snap[from].owner_email = owner_email
            THEN <<ListEntry(snap[from])>> ELSE <<>>)
         \o UserKeys(snap, owner_email, from + 1)

RetList(user_keys) == [kind |-> "list", entries |-> user_keys]

\* list_keys: one load, no save
list_keys(t, owner_email) ==
    /\ Begin(t, [op |-> "list", owner_email |-> owner_email])
    /\ kret' = [kret EXCEPT ![t] = RetList(UserKeys(_load_keys, owner_email, 1))]
    /\ kpc' = [kpc EXCEPT ![t] = "done"]
    /\ UNCHANGED <<keys, lock, clock, nextKey, ksnap, revoked, lastWrite>>
    /\ UNCHANGED <<usage0, svars, mvars, files>>

\* APIKeyManager.__init__: an empty api_keys.json, a free lock
KeysInit ==
    /\ keys = EmptyStore
    /\ lock = Free
    /\ clock = 1
    /\ nextKey = 0
    /\ kpc = [t \in Threads |-> "idle"]
    /\ kcall = [t \in Threads |-> NoCall]
    /\ ksnap = [t \in Threads |-> EmptyStore]
    /\ kret = [t \in Threads |-> RetNone]
    /\ ops = 0
    /\ revoked = {}
    /\ lastWrite = [op |-> "none", key_id |-> 0]
    /\ usage0 = 0

\* a process that starts on an api_keys.json left by an earlier run: key 1 is
\* active and was used u times, key 2 may exist, active or revoked
StoredKey1(u) ==
    [NewKeyRecord(1, NewSecret(1), "alice@x") EXCEPT !.usage_count = u,
                                                     !.last_used = IF u = 0 THEN NoTime ELSE u]

StoredKey2(active) ==
    [NewKeyRecord(2, NewSecret(2), "bob@x") EXCEPT !.is_active = active]

KeysInitStored ==
    /\ \E u \in 0..MaxStartUsage :
          /\ usage0 = u
          /\ clock = u + 1
          /\ keys \in {Put(EmptyStore, 1, StoredKey1(u))}
                      \cup {Put(Put(EmptyStore, 1, StoredKey1(u)), 2, StoredKey2(a))
                            : a \in BOOLEAN}
    /\ nextKey = Cardinality(DOMAIN keys)
    /\ lock = Free
    /\ kpc = [t \in Threads |-> "idle"]
    /\ kcall = [t \in Threads |-> NoCall]
    /\ ksnap = [t \in Threads |-> EmptyStore]
    /\ kret = [t \in Threads |-> RetNone]
    /\ ops = 0
    /\ revoked = {}
    /\ lastWrite = [op |-> "none", key_id |-> 0]

\* ------------------------------------------------------------ session files
\* characters admitted by r'^[a-zA-Z0-9_-]+$'
AllowedChars ==
    {"a","b","c","d","e","f","g","h","i","j","k","l","m","n","o","p","q","r",
     "s","t","u","v","w","x","y","z","A","B","C","D","E","F","G","H","I","J",
     "K","L","M","N","O","P","Q","R","S","T","U","V","W","X","Y","Z","0","1",
     "2","3","4","5","6","7","8","9","_","-"}

SESSION_ID_MAX_LEN == 64

\* re.match(r'^[a-zA-Z0-9_-]+$', session_id): `$` also matches before one
\* trailing newline
RegexMatches(sid) ==
    LET n == Len(sid)
        core == IF n > 0 /\ sid[n] = "\n" THEN SubSeq(sid, 1, n - 1) ELSE sid
    IN /\ Len(core) > 0
       /\ \A i \in 1..Len(core) : core[i] \in AllowedChars

_is_valid_session_id(sid) == RegexMatches(sid) /\ Len(sid) <= SESSION_ID_MAX_LEN

\* get_session: <<>> for None (also on JSONDecodeError), else the parsed
\* record in a one-element tuple
get_session(store, sid) ==
    IF ~_is_valid_session_id(sid) THEN <<>>
    ELSE IF sid \notin DOMAIN store THEN <<>>
    ELSE IF sid \in files.sessions THEN <<>>
    ELSE <<store[sid]>>

\* get_conversation_history
get_conversation_history(store, sid) ==
    LET session_data == get_session(store, sid)
    IN IF session_data = <<>> THEN <<>> ELSE session_data[1].messages

\* session_data["messages"].append(message)
AppendMessage_Front(messages, message) == <<message>> \o messages

AppendMessage(messages, message) == Append(messages, message)

\* save_session refuses the id
add_message_raises_Never(sid) == FALSE

\* add_message raises (ValueError of save_session) exactly on an invalid id
add_message_raises(sid) == ~_is_valid_session_id(sid)

\* add_message on a valid id: load or shell record, append, save_session
add_message(store, sid, role, content) ==
    LET loaded == get_session(store, sid)
        session_data == IF loaded = <<>>
                          THEN [session_id |-> sid, user_email |-> "None", messages |-> <<>>]
                          ELSE loaded[1]
        message == [role |-> role, content |-> content]
    IN Put(store, sid, [session_data EXCEPT !.messages = AppendMessage(@, message)])

\* ---------------------------------------------------------- SessionManager
MThreads == {1, 2}
Emails == {"alice@x", "bob@x"}
Passwords == {"pw1", "pw2"}
Salts == {1, 2}

\* werkzeug generate_password_hash: a random salt and the digest of salt and
\* password, which determines both
Digest(salt, password) == <<"digest", salt, password>>
generate_password_hash(password, salt) == [salt |-> salt, digest |-> Digest(salt, password)]

\* werkzeug check_password_hash: the digest recomputed with the stored salt
check_password_hash_Any(pwhash, password) == TRUE

check_password_hash(pwhash, password) == pwhash.digest = Digest(pwhash.salt, password)

\* `if email in users`
EmailTaken_Never(snap, email) == FALSE

EmailTaken(snap, email) == email \in DOMAIN snap

\* results of the SessionManager calls
MNone == [kind |-> "none"]
MBool(b) == [kind |-> "bool", val |-> b]
MSid(sid) == [kind |-> "sid", sid |-> sid]
MSession(session_data) == [kind |-> "session", data |-> session_data]
MList(messages) == [kind |-> "list", items |-> messages]
MRaise(error) == [kind |-> "raise", error |-> error]

\* a request thread that is running no call takes up the next one; the
\* files as the call finds them are kept with the call
MBegin(t, call) ==
    /\ mpc[t] \in {"idle", "done"}
    /\ mops < MaxSMOps
    /\ mops' = mops + 1
    /\ mcall' = [mcall EXCEPT ![t] =
                    [op |-> call.op, email |-> call.email, password |-> call.password,
                     sid |-> call.sid, role |-> call.role, content |-> call.content,
                     pre |-> [users |-> users, sessions |-> sessions], at |-> mops + 1]]

Call(op, email, password, sid, role, content) ==
    [op |-> op, email |-> email, password |-> password, sid |-> sid,
     role |-> role, content |-> content]

NoMCall ==
    [op |-> "none", email |-> "None", password |-> "", sid |-> <<>>, role |-> "",
     content |-> <<>>, pre |-> [users |-> EmptyStore, sessions |-> EmptyStore], at |-> 0]

\* create_user: users = self._load_users(); if email in users: return False
create_user_load(t, email, password) ==
    /\ MBegin(t, Call("create_user", email, password, <<>>, "", <<>>))
    /\ IF EmailTaken(_load_users, email)
         THEN /\ mpc' = [mpc EXCEPT ![t] = "done"]
              /\ UNCHANGED msnap
         ELSE /\ mpc' = [mpc EXCEPT ![t] = "cu_loaded"]
              /\ msnap' = [msnap EXCEPT ![t] = _load_users]
    /\ mret' = [mret EXCEPT ![t] = MBool(FALSE)]
    /\ fslog' = [fslog EXCEPT ![t] = {}]
    /\ UNCHANGED <<users, nextSid, registered>>
    /\ UNCHANGED <<kvars, svars, files>>

\* create_user: users[email] = {...}; self._save_users(users); return True
create_user_save(t, salt) ==
    /\ mpc[t] = "cu_loaded"
    /\ LET email == mcall[t].email
           pwhash == generate_password_hash(mcall[t].password, salt)
       IN /\ users' = Put(msnap[t], email,
                          [email |-> email, password_hash |-> pwhash,
                           created_at |-> mcall[t].at, sessions |-> <<>>])
          /\ registered' = Append(registered,
                                  [email |-> email, password |-> mcall[t].password,
                                   password_hash |-> pwhash])
    /\ mret' = [mret EXCEPT ![t] = MBool(TRUE)]
    /\ mpc' = [mpc EXCEPT ![t] = "done"]
    /\ msnap' = [msnap EXCEPT ![t] = EmptyStore]
    /\ UNCHANGED <<mcall, mops, nextSid, fslog>>
    /\ files' = SavedUsers
    /\ UNCHANGED <<kvars, svars>>

\* authenticate_user
authenticate_user(t, email, password) ==
    /\ MBegin(t, Call("authenticate_user", email, password, <<>>, "", <<>>))
    /\ mret' = [mret EXCEPT ![t] =
                   IF email \notin DOMAIN _load_users THEN MBool(FALSE)
                   ELSE MBool(check_password_hash(_load_users[email].password_hash,
                                                  password))]
    /\ mpc' = [mpc EXCEPT ![t] = "done"]
    /\ fslog' = [fslog EXCEPT ![t] = {}]
    /\ UNCHANGED <<users, msnap, nextSid, registered>>
    /\ UNCHANGED <<kvars, svars, files>>

\* get_user_sessions
get_user_sessions(t, email) ==
    /\ MBegin(t, Call("get_user_sessions", email, "", <<>>, "", <<>>))
    /\ mret' = [mret EXCEPT ![t] =
                   IF email \notin DOMAIN _load_users THEN MList(<<>>)
                   ELSE MList(_load_users[email].sessions)]
    /\ mpc' = [mpc EXCEPT ![t] = "done"]
    /\ fslog' = [fslog EXCEPT ![t] = {}]
    /\ UNCHANGED <<users, msnap, nextSid, registered>>
    /\ UNCHANGED <<kvars, svars, files>>

\* SessionManager.__init__: users.json holds {}, the sessions directory is empty
SMInit ==
    /\ users = EmptyStore
    /\ mpc = [t \in MThreads |-> "idle"]
    /\ mcall = [t \in MThreads |-> NoMCall]
    /\ msnap = [t \in MThreads |-> EmptyStore]
    /\ mret = [t \in MThreads |-> MNone]
    /\ mops = 0
    /\ nextSid = 0
    /\ fslog = [t \in MThreads |-> {}]
    /\ registered = <<>>

\* -------------------------------------------------------- streaming bridges
TOOL_RESULT_PREVIEW_LENGTH == 500

Bridges == {"web", "api"}

\* the cookie is absent (or empty): `if session_id` is false
NoCookie == <<>>
GoodSid == <<"s", "1">>
BadSid == <<".", ".", "/", "x">>

\* data.get("question") / data.get("message")
question == <<"h", "i", "?">>

Texts == {<<>>, <<"H", "e", "l">>, <<"l", "o">>}
ShortResult == <<"o", "k">>
LongResult == [i \in 1..(TOOL_RESULT_PREVIEW_LENGTH + 1) |-> "x"]
\* str(None), for a tool event without a tool_result entry
NoneText == <<"N", "o", "n", "e">>

StrChunk(text) ==
    [type |-> "str", text |-> text, tool_name |-> "", tool_result |-> <<>>,
     has_result |-> FALSE, final |-> FALSE]
DictChunk(tool_name, has_result, tool_result, final) ==
    [type |-> "dict", text |-> <<>>, tool_name |-> tool_name, tool_result |-> tool_result,
     has_result |-> has_result, final |-> final]
OtherChunk ==
    [type |-> "other", text |-> <<>>, tool_name |-> "", tool_result |-> <<>>,
     has_result |-> FALSE, final |-> FALSE]

\* what the producer can hand to the bridge
Chunks ==
    {StrChunk(x) : x \in Texts}
    \cup {DictChunk("search", TRUE, ShortResult, FALSE),
          DictChunk("search", TRUE, LongResult, FALSE),
          DictChunk("search", FALSE, <<>>, FALSE),
          DictChunk("", FALSE, <<>>, TRUE),
          DictChunk("", FALSE, <<>>, FALSE),
          OtherChunk}

Frame(kind, text, tool_name) == [kind |-> kind, text |-> text, tool_name |-> tool_name]
TokenFrame(text) == Frame("token", text, "")
ToolCallFrame(tool_name, preview) == Frame("tool_call", preview, tool_name)
DoneFrame == Frame("done", <<>>, "")
ErrorFrame(message) == Frame("error", message, "")
DebugFrame == Frame("debug_info", <<>>, "")

\* s[:n]
Prefix_All(str, n) == str

Prefix(str, n) == SubSeq(str, 1, IF Len(str) < n THEN Len(str) ELSE n)

\* str(chunk.get('tool_result'))
ToolResultText(chunk) == IF chunk.has_result THEN chunk.tool_result ELSE NoneText

\* the frames the loop body yields for one chunk
EmitFor_SkipEmpty(b, chunk) ==
    IF chunk.type = "str"
      THEN IF chunk.text = <<>> THEN <<>> ELSE <<TokenFrame(chunk.text)>>
    ELSE IF chunk.type = "dict"
      THEN IF chunk.tool_name # ""
             THEN <<ToolCallFrame(chunk.tool_name,
                                  Prefix(ToolResultText(chunk), TOOL_RESULT_PREVIEW_LENGTH))>>
             ELSE <<>>
    ELSE IF b = "web" THEN <<DebugFrame>> ELSE <<>>

EmitFor(b, chunk) ==
    IF chunk.type = "str"
      THEN <<TokenFrame(chunk.text)>>
    ELSE IF chunk.type = "dict"
      THEN IF chunk.tool_name # ""
             THEN <<ToolCallFrame(chunk.tool_name,
                                  Prefix(ToolResultText(chunk), TOOL_RESULT_PREVIEW_LENGTH))>>
             ELSE <<>>
    ELSE IF b = "web" THEN <<DebugFrame>> ELSE <<>>

\* full_response += chunk, for a str chunk only
Accumulate_Overwrite(acc, chunk) == IF chunk.type = "str" THEN chunk.text ELSE acc

Accumulate(acc, chunk) == IF chunk.type = "str" THEN acc \o chunk.text ELSE acc

\* the statement that follows the drain loop
AfterDrain_DoneFirst(b, sid) == "yield_done"

AfterDrain(b, sid) == IF b = "web" /\ sid # <<>> THEN "add_user" ELSE "log"

\* session_id handed to log_interaction
LogSessionId(b, sid) ==
    IF b = "web" THEN (IF sid # <<>> THEN sid ELSE <<"n","o","_","s","e","s","s","i","o","n">>)
    ELSE <<"a", "p", "i", "_">>

NoExc == [src |-> "none", msg |-> <<>>]
ProducerError == [src |-> "producer", msg |-> <<"b", "o", "o", "m">>]
ValueError == [src |-> "persist", msg |-> <<"I", "n", "v", "a", "l", "i", "d">>]
IOError == [src |-> "persist", msg |-> <<"E", "I", "O">>]

\* try: history lookup, loop = asyncio.new_event_loop(), async_gen = ...
stream_start ==
    /\ spc = "start"
    /\ loop' = "open"
    /\ spc' = "drain"
    /\ UNCHANGED <<bridge, session_id, chunks, frames, full_response, sessions,
                   analytics, exc, calls>>
    /\ UNCHANGED <<kvars, mvars, files>>

\* one round of the while loop: __anext__ returns chunk
stream_chunk(chunk) ==
    /\ spc = "drain"
    /\ Len(chunks) < MaxChunks
    /\ chunks' = Append(chunks, chunk)
    /\ full_response' = Accumulate(full_response, chunk)
    /\ frames' = frames \o EmitFor(bridge, chunk)
    /\ UNCHANGED <<bridge, session_id, spc, sessions, analytics, loop, exc, calls>>
    /\ UNCHANGED <<kvars, mvars, files>>

\* __anext__ raises StopAsyncIteration: break
stream_exhausted ==
    /\ spc = "drain"
    /\ spc' = AfterDrain(bridge, session_id)
    /\ UNCHANGED <<bridge, session_id, chunks, frames, full_response, sessions,
                   analytics, loop, exc, calls>>
    /\ UNCHANGED <<kvars, mvars, files>>

\* __anext__ raises another exception
stream_producer_raises ==
    /\ spc = "drain"
    /\ exc' = ProducerError
    /\ spc' = "except"
    /\ UNCHANGED <<bridge, session_id, chunks, frames, full_response, sessions,
                   analytics, loop, calls>>
    /\ UNCHANGED <<kvars, mvars, files>>

\* session_manager.add_message(session_id, role, content)
stream_add_message(at, role, content, then) ==
    /\ spc = at
    /\ calls' = Append(calls, [fn |-> "add_message", role |-> role, content |-> content])
    /\ IF add_message_raises(session_id)
         THEN /\ exc' = ValueError
              /\ spc' = "except"
              /\ UNCHANGED <<sessions, files>>
         ELSE /\ sessions' = add_message(sessions, session_id, role, content)
              /\ spc' = then
              /\ files' = SavedSession(session_id)
              /\ UNCHANGED exc
    /\ UNCHANGED <<bridge, session_id, chunks, frames, full_response, analytics, loop>>
    /\ UNCHANGED <<kvars, mvars>>

stream_add_user == stream_add_message("add_user", "user", question, "add_assistant")

stream_add_assistant == stream_add_message("add_assistant", "assistant", full_response, "log")

\* log_interaction(...): read analytics.json, append, write back
stream_log ==
    /\ spc = "log"
    /\ calls' = Append(calls, [fn |-> "log_interaction", role |-> "", content |-> full_response])
    /\ analytics' = Append(analytics, [session_id |-> LogSessionId(bridge, session_id),
                                       question |-> question, answer |-> full_response])
    /\ spc' = "yield_done"
    /\ UNCHANGED <<bridge, session_id, chunks, frames, full_response, sessions, loop, exc>>
    /\ UNCHANGED <<kvars, mvars, files>>

\* log_interaction(...) raises while writing the file
stream_log_raises ==
    /\ spc = "log"
    /\ calls' = Append(calls, [fn |-> "log_interaction", role |-> "", content |-> full_response])
    /\ exc' = IOError
    /\ spc' = "except"
    /\ UNCHANGED <<bridge, session_id, chunks, frames, full_response, sessions,
                   analytics, loop>>
    /\ UNCHANGED <<kvars, mvars, files>>

\* yield the done frame
stream_yield_done ==
    /\ spc = "yield_done"
    /\ frames' = Append(frames, DoneFrame)
    /\ spc' = "finally"
    /\ UNCHANGED <<bridge, session_id, chunks, full_response, sessions, analytics,
                   loop, exc, calls>>
    /\ UNCHANGED <<kvars, mvars, files>>

\* except Exception as e: api.py yields an error frame, src/app.py only prints
stream_except ==
    /\ spc = "except"
    /\ frames' = IF bridge = "api" THEN Append(frames, ErrorFrame(exc.msg)) ELSE frames
    /\ spc' = "finally"
    /\ UNCHANGED <<bridge, session_id, chunks, full_response, sessions, analytics,
                   loop, exc, calls>>
    /\ UNCHANGED <<kvars, mvars, files>>

\* `if loop is not None and not loop.is_closed(): loop.close()`
CloseLoop_Leak(l) == l

CloseLoop(l) == IF l = "open" THEN "closed" ELSE l

\* the consumer closes the generator while it is suspended at the yield of a
\* token, tool_call or debug frame: GeneratorExit is no Exception, so the
\* except branch is passed over and the finally block runs
GeneratorExit == [src |-> "consumer", msg |-> <<>>]

Suspended ==
    /\ spc = "drain"
    /\ chunks # <<>>
    /\ EmitFor(bridge, chunks[Len(chunks)]) # <<>>

stream_close ==
    /\ Suspended
    /\ exc' = GeneratorExit
    /\ spc' = "finally"
    /\ UNCHANGED <<bridge, session_id, chunks, frames, full_response, sessions,
                   analytics, loop, calls>>
    /\ UNCHANGED <<kvars, mvars, files>>

\* finally: loop.close()
stream_finally ==
    /\ spc = "finally"
    /\ loop' = CloseLoop(loop)
    /\ spc' = "closed"
    /\ UNCHANGED <<bridge, session_id, chunks, frames, full_response, sessions,
                   analytics, exc, calls>>
    /\ UNCHANGED <<kvars, mvars, files>>

\* collect_streaming_response(message): full_response of the non-streaming
\* chat path over the chunks cs of the producer, taken from chunk i on with
\* acc collected so far; a dict chunk with a true 'final' entry ends the loop
RECURSIVE CollectFrom(_, _, _)
CollectFrom(cs, i, acc) ==
    IF i > Len(cs) THEN acc
    ELSE IF cs[i].type = "str" THEN CollectFrom(cs, i + 1, acc \o cs[i].text)
    ELSE IF cs[i].type = "dict" /\ cs[i].final THEN acc
    ELSE CollectFrom(cs, i + 1, acc)

collect_streaming_response(cs) == CollectFrom(cs, 1, <<>>)

\* a request arrives: which handler, which cookie, which files exist
Transcripts == {<<>>, <<[role |-> "user", content |-> <<"y", "o">>]>>}

StreamInit ==
    /\ bridge \in Bridges
    /\ session_id \in IF bridge = "web" THEN {NoCookie, GoodSid, BadSid} ELSE {NoCookie}
    /\ spc = "start"
    /\ chunks = <<>>
    /\ frames = <<>>
    /\ full_response = <<>>
    /\ sessions \in {EmptyStore}
                    \cup {Put(EmptyStore, GoodSid,
                              [session_id |-> GoodSid, user_email |-> "None", messages |-> m])
                          : m \in Transcripts}
    /\ analytics = <<>>
    /\ loop = "none"
    /\ exc = NoExc
    /\ calls = <<>>

\* no streaming request in this process
StreamIdle ==
    /\ bridge = "web"
    /\ session_id = NoCookie
    /\ spc = "closed"
    /\ chunks = <<>>
    /\ frames = <<>>
    /\ full_response = <<>>
    /\ sessions = EmptyStore
    /\ analytics = <<>>
    /\ loop = "none"
    /\ exc = NoExc
    /\ calls = <<>>

\* ------------------------------------------- SessionManager: session files
\* secrets.token_urlsafe(nbytes): base64url text of nbytes random bytes,
\* padding stripped
SESSION_TOKEN_BYTES_Long == SESSION_ID_MAX_LEN

SESSION_TOKEN_BYTES == 32

TokenLen(nbytes) == (4 * nbytes + 2) \div 3

TokenChars == <<"A", "b", "3", "-", "_", "Z">>

\* the n-th token this process draws
token_urlsafe(nbytes, n) ==
    [i \in 1..TokenLen(nbytes) |->
        IF i = 1 THEN TokenChars[((n - 1) % Len(TokenChars)) + 1]
        ELSE TokenChars[((i + n) % Len(TokenChars)) + 1]]

NewSessionId(n) == token_urlsafe(SESSION_TOKEN_BYTES, n)

\* ids a caller passes
EmptySid == <<>>
LongSid == [i \in 1..(SESSION_ID_MAX_LEN + 1) |-> "a"]
NewlineSid == <<"s", "1", "\n">>
SessionIds ==
    {NewSessionId(n) : n \in 1..nextSid}
        \cup {GoodSid, BadSid, EmptySid, LongSid, NewlineSid}

\* user_email of a session call: not logged in, an account, no account
SessionOwners == {"None", "alice@x", "bob@x"}

Messages == {[role |-> "user", content |-> question],
             [role |-> "assistant", content |-> ShortResult]}

\* file accesses of a call
Access(op, sid) == [op |-> op, sid |-> sid]

\* the accesses of get_session
GetSessionAccess(store, sid) ==
    IF ~_is_valid_session_id(sid) THEN {}
    ELSE IF sid \notin DOMAIN store THEN {Access("exists", sid)}
    ELSE {Access("exists", sid), Access("read", sid)}

\* os.remove(session_file)
Remove(store, sid) == [x \in (DOMAIN store) \ {sid} |-> store[x]]

InList(list, x) == \E i \in 1..Len(list) : list[i] = x

\* users[user_email]["sessions"].remove(session_id): the first occurrence
Unlink_Keep(list, sid) == list

Unlink(list, sid) ==
    LET i == CHOOSE j \in 1..Len(list) :
                 list[j] = sid /\ \A h \in 1..(j - 1) : list[h] # sid
    IN SubSeq(list, 1, i - 1) \o SubSeq(list, i + 1, Len(list))

\* users[user_email]["sessions"].append(session_id)
LinkSession_Front(list, sid) == <<sid>> \o list

LinkSession(list, sid) == Append(list, sid)

\* the session calls explored are fewer than the account calls
SBegin(t, call) == mops < MaxSessionOps /\ MBegin(t, call)

\* create_session: draw the id, write the session file
create_session_write(t, user_email) ==
    /\ nextSid < MaxSessions
    /\ LET sid == NewSessionId(nextSid + 1)
       IN /\ SBegin(t, Call("create_session", user_email, "", sid, "", <<>>))
          /\ sessions' = Put(sessions, sid,
                             [session_id |-> sid, user_email |-> user_email,
                              messages |-> <<>>])
          /\ fslog' = [fslog EXCEPT ![t] = {Access("write", sid)}]
          /\ mret' = [mret EXCEPT ![t] = MSid(sid)]
    /\ nextSid' = nextSid + 1
    /\ mpc' = [mpc EXCEPT ![t] = IF user_email = "None" THEN "done" ELSE "cs_written"]
    /\ UNCHANGED <<users, msnap, registered>>
    /\ files' = SavedSession(NewSessionId(nextSid + 1))
    /\ UNCHANGED <<kvars, reqvars>>

\* create_session: `if user_email:` users = self._load_users();
\* `if user_email in users` else return session_id
create_session_load(t) ==
    /\ mpc[t] = "cs_written"
    /\ IF mcall[t].email \in DOMAIN _load_users
         THEN /\ msnap' = [msnap EXCEPT ![t] = _load_users]
              /\ mpc' = [mpc EXCEPT ![t] = "cs_loaded"]
         ELSE /\ mpc' = [mpc EXCEPT ![t] = "done"]
              /\ UNCHANGED msnap
    /\ UNCHANGED <<users, mcall, mret, mops, nextSid, fslog, registered>>
    /\ UNCHANGED <<kvars, svars, files>>

\* create_session: append the id to the loaded list, self._save_users(users)
create_session_save(t) ==
    /\ mpc[t] = "cs_loaded"
    /\ users' = [msnap[t] EXCEPT ![mcall[t].email].sessions = LinkSession(@, mcall[t].sid)]
    /\ msnap' = [msnap EXCEPT ![t] = EmptyStore]
    /\ mpc' = [mpc EXCEPT ![t] = "done"]
    /\ UNCHANGED <<mcall, mret, mops, nextSid, fslog, registered>>
    /\ files' = SavedUsers
    /\ UNCHANGED <<kvars, svars>>

\* get_session as a call
get_session_call(t, sid) ==
    /\ SBegin(t, Call("get_session", "None", "", sid, "", <<>>))
    /\ LET session_data == get_session(sessions, sid)
       IN mret' = [mret EXCEPT ![t] =
                      IF session_data = <<>> THEN MNone ELSE MSession(session_data[1])]
    /\ fslog' = [fslog EXCEPT ![t] = GetSessionAccess(sessions, sid)]
    /\ mpc' = [mpc EXCEPT ![t] = "done"]
    /\ UNCHANGED <<users, msnap, nextSid, registered>>
    /\ UNCHANGED <<kvars, svars, files>>

\* get_conversation_history as a call
get_conversation_history_call(t, sid) ==
    /\ SBegin(t, Call("get_conversation_history", "None", "", sid, "", <<>>))
    /\ mret' = [mret EXCEPT ![t] = MList(get_conversation_history(sessions, sid))]
    /\ fslog' = [fslog EXCEPT ![t] = GetSessionAccess(sessions, sid)]
    /\ mpc' = [mpc EXCEPT ![t] = "done"]
    /\ UNCHANGED <<users, msnap, nextSid, registered>>
    /\ UNCHANGED <<kvars, svars, files>>

\* save_session
save_session(t, sid, session_data) ==
    /\ SBegin(t, Call("save_session", "None", "", sid, "", <<>>))
    /\ IF add_message_raises(sid)
         THEN /\ mret' = [mret EXCEPT ![t] = MRaise("ValueError")]
              /\ fslog' = [fslog EXCEPT ![t] = {}]
              /\ UNCHANGED <<sessions, files>>
         ELSE /\ mret' = [mret EXCEPT ![t] = MNone]
              /\ fslog' = [fslog EXCEPT ![t] = {Access("write", sid)}]
              /\ sessions' = Put(sessions, sid, session_data)
              /\ files' = SavedSession(sid)
    /\ mpc' = [mpc EXCEPT ![t] = "done"]
    /\ UNCHANGED <<users, msnap, nextSid, registered>>
    /\ UNCHANGED <<kvars, reqvars>>

\* the record add_message builds when get_session returns None: no owner, no
\* messages yet
ShellRecord_Alice(sid) == [session_id |-> sid, user_email |-> "alice@x", messages |-> <<>>]

ShellRecord(sid) == [session_id |-> sid, user_email |-> "None", messages |-> <<>>]

\* add_message: session_data = self.get_session(session_id), or the shell
\* record when there is none
add_message_read(t, sid) ==
    /\ LET loaded == get_session(sessions, sid)
       IN msnap' = [msnap EXCEPT ![t] = IF loaded = <<>> THEN ShellRecord(sid) ELSE loaded[1]]
    /\ fslog' = [fslog EXCEPT ![t] = GetSessionAccess(sessions, sid)]
    /\ mret' = [mret EXCEPT ![t] = MNone]
    /\ mpc' = [mpc EXCEPT ![t] = "am_loaded"]
    /\ UNCHANGED <<users, nextSid, registered>>
    /\ UNCHANGED <<kvars, svars, files>>

\* add_message called on its own
add_message_load(t, sid, message) ==
    /\ SBegin(t, Call("add_message", "None", "", sid, message.role, message.content))
    /\ add_message_read(t, sid)

\* add_message: append the message, self.save_session(session_id, session_data)
add_message_save(t) ==
    /\ mpc[t] = "am_loaded"
    /\ LET sid == mcall[t].sid
           message == [role |-> mcall[t].role, content |-> mcall[t].content]
       IN IF add_message_raises(sid)
            THEN /\ mret' = [mret EXCEPT ![t] = MRaise("ValueError")]
                 /\ UNCHANGED <<sessions, fslog, files>>
            ELSE /\ mret' = [mret EXCEPT ![t] = MNone]
                 /\ sessions' = Put(sessions, sid,
                                    [msnap[t] EXCEPT !.messages = AppendMessage(@, message)])
                 /\ fslog' = [fslog EXCEPT ![t] = @ \cup {Access("write", sid)}]
                 /\ files' = SavedSession(sid)
    /\ mpc' = [mpc EXCEPT ![t] = "done"]
    /\ msnap' = [msnap EXCEPT ![t] = EmptyStore]
    /\ UNCHANGED <<users, mcall, mops, nextSid, registered>>
    /\ UNCHANGED <<kvars, reqvars>>

\* delete_session: the validity check and os.path.exists
delete_session_check(t, sid, user_email) ==
    /\ SBegin(t, Call("delete_session", user_email, "", sid, "", <<>>))
    /\ IF ~_is_valid_session_id(sid)
         THEN /\ fslog' = [fslog EXCEPT ![t] = {}]
              /\ mpc' = [mpc EXCEPT ![t] = "done"]
         ELSE /\ fslog' = [fslog EXCEPT ![t] = {Access("exists", sid)}]
              /\ mpc' = [mpc EXCEPT ![t] =
                            IF sid \notin DOMAIN sessions THEN "done"
                            ELSE IF user_email = "None" THEN "ds_remove"
                            ELSE "ds_users"]
    /\ mret' = [mret EXCEPT ![t] = MBool(FALSE)]
    /\ UNCHANGED <<users, msnap, nextSid, registered>>
    /\ UNCHANGED <<kvars, svars, files>>

\* delete_session: `if user_email:` load users, remove the id, save
delete_session_unlink(t) ==
    /\ mpc[t] = "ds_users"
    /\ LET user_email == mcall[t].email
           sid == mcall[t].sid
           loaded == _load_users
       IN IF user_email \in DOMAIN loaded /\ InList(loaded[user_email].sessions, sid)
            THEN /\ users' = [loaded EXCEPT ![user_email].sessions = Unlink(@, sid)]
                 /\ files' = SavedUsers
            ELSE UNCHANGED <<users, files>>
    /\ mpc' = [mpc EXCEPT ![t] = "ds_remove"]
    /\ UNCHANGED <<mcall, msnap, mret, mops, nextSid, fslog, registered>>
    /\ UNCHANGED <<kvars, svars>>

\* delete_session: os.remove(session_file); return True
delete_session_remove(t) ==
    /\ mpc[t] = "ds_remove"
    /\ LET sid == mcall[t].sid
       IN IF sid \in DOMAIN sessions
            THEN /\ sessions' = Remove(sessions, sid)
                 /\ fslog' = [fslog EXCEPT ![t] = @ \cup {Access("remove", sid)}]
                 /\ mret' = [mret EXCEPT ![t] = MBool(TRUE)]
                 /\ files' = SavedSession(sid)
            ELSE /\ mret' = [mret EXCEPT ![t] = MRaise("FileNotFoundError")]
                 /\ UNCHANGED <<sessions, fslog, files>>
    /\ mpc' = [mpc EXCEPT ![t] = "done"]
    /\ UNCHANGED <<users, mcall, msnap, mops, nextSid, registered>>
    /\ UNCHANGED <<kvars, reqvars>>

\* msg["content"][:100]
PREVIEW_LENGTH == 100

\* `for msg in messages: if msg["role"] == "user": ... break`: the first
\* user message, if there is one
FirstUserMessage_Any(messages) == IF messages = <<>> THEN <<>> ELSE <<messages[1]>>

FirstUserMessage(messages) ==
    LET user_messages == SelectSeq(messages, LAMBDA msg : msg.role = "user")
    IN IF user_messages = <<>> THEN <<>> ELSE <<user_messages[1]>>

\* the entry of one loaded session (created_at is not kept in this model)
PreviewEntry(sid, session_data) ==
    LET first == FirstUserMessage(session_data.messages)
    IN [session_id |-> sid,
        preview |-> IF first = <<>> THEN <<>> ELSE Prefix(first[1].content, PREVIEW_LENGTH),
        message_count |-> Len(session_data.messages)]

\* `for session_id in session_ids:` with `if session_data:`
RECURSIVE SessionsWithPreview(_, _)
SessionsWithPreview(session_ids, store) ==
    IF session_ids = <<>> THEN <<>>
    ELSE LET session_data == get_session(store, Head(session_ids))
         IN (IF session_data = <<>> THEN <<>>
             ELSE <<PreviewEntry(Head(session_ids), session_data[1])>>)
            \o SessionsWithPreview(Tail(session_ids), store)

\* get_all_user_sessions_with_preview
get_all_user_sessions_with_preview(t, email) ==
    /\ MBegin(t, Call("get_all_user_sessions_with_preview", email, "", <<>>, "", <<>>))
    /\ LET session_ids == IF email \notin DOMAIN _load_users THEN <<>>
                          ELSE _load_users[email].sessions
       IN /\ mret' = [mret EXCEPT ![t] = MList(SessionsWithPreview(session_ids, sessions))]
          /\ fslog' = [fslog EXCEPT ![t] =
                          UNION {GetSessionAccess(sessions, session_ids[i])
                                 : i \in 1..Len(session_ids)}]
    /\ mpc' = [mpc EXCEPT ![t] = "done"]
    /\ UNCHANGED <<users, msnap, nextSid, registered>>
    /\ UNCHANGED <<kvars, svars, files>>

\* alice has an account and two sessions, the first with one message
AliceSessions == <<NewSessionId(1), NewSessionId(2)>>

SessionsInit ==
    /\ users = Put(EmptyStore, "alice@x",
                   [email |-> "alice@x",
                    password_hash |-> generate_password_hash("pw1", 1),
                    created_at |-> 0, sessions |-> AliceSessions])
    /\ sessions = Put(Put(EmptyStore, NewSessionId(1),
                          [session_id |-> NewSessionId(1), user_email |-> "alice@x",
                           messages |-> <<[role |-> "user", content |-> <<"y", "o">>]>>]),
                      NewSessionId(2),
                      [session_id |-> NewSessionId(2), user_email |-> "alice@x",
                       messages |-> <<>>])
    /\ mpc = [t \in MThreads |-> "idle"]
    /\ mcall = [t \in MThreads |-> NoMCall]
    /\ msnap = [t \in MThreads |-> EmptyStore]
    /\ mret = [t \in MThreads |-> MNone]
    /\ mops = 0
    /\ nextSid = Len(AliceSessions)
    /\ fslog = [t \in MThreads |-> {}]
    /\ registered = <<[email |-> "alice@x", password |-> "pw1",
                       password_hash |-> generate_password_hash("pw1", 1)]>>
    /\ bridge = "web"
    /\ session_id = NoCookie
    /\ spc = "closed"
    /\ chunks = <<>>
    /\ frames = <<>>
    /\ full_response = <<>>
    /\ analytics = <<>>
    /\ loop = "none"
    /\ exc = NoExc
    /\ calls = <<>>

\* -------------------------------------------------------- specifications
\* the key store under concurrent request threads
Init == KeysInit /\ StreamIdle /\ SMInit /\ FilesInit

Next ==
    \/ \E t \in Threads, s \in Secrets : validate_begin(t, s)
    \/ \E t \in Threads : validate_acquire(t)
    \/ \E t \in Threads : validate_load(t)
    \/ \E t \in Threads : validate_finish(t)
    \/ \E t \in Threads, o \in Owners : generate_load(t, o)
    \/ \E t \in Threads : generate_save(t)
    \/ \E t \in Threads, k \in KeyIds, o \in Owners : revoke_load(t, k, o)
    \/ \E t \in Threads : revoke_save(t)

Spec == Init /\ [][Next]_vars

\* one streaming request
InitStream == KeysInit /\ StreamInit /\ SMInit /\ FilesInit

NextStream ==
    \/ stream_start
    \/ \E c \in Chunks : stream_chunk(c)
    \/ stream_exhausted
    \/ stream_producer_raises
    \/ stream_add_user
    \/ stream_add_assistant
    \/ stream_log
    \/ stream_log_raises
    \/ stream_yield_done
    \/ stream_except
    \/ stream_finally

SpecStream == InitStream /\ [][NextStream]_vars

\* one streaming request whose consumer may go away before the end
NextStreamClose ==
    \/ NextStream
    \/ stream_close

SpecStreamClose == InitStream /\ [][NextStreamClose]_vars

\* request threads that all validate the secret of key 1, nothing else running
InitValidate == KeysInitStored /\ StreamIdle /\ SMInit /\ FilesInit

NextValidate ==
    \/ \E t \in Threads : validate_begin(t, NewSecret(1))
    \/ \E t \in Threads : validate_acquire(t)
    \/ \E t \in Threads : validate_load(t)
    \/ \E t \in Threads : validate_finish(t)

SpecValidate == InitValidate /\ [][NextValidate]_vars

\* the key store used by two request threads, list_keys included
PairThreads == {1, 2}

NextKeysPair ==
    \/ \E t \in PairThreads, s \in Secrets : validate_begin(t, s)
    \/ \E t \in PairThreads : validate_acquire(t)
    \/ \E t \in PairThreads : validate_load(t)
    \/ \E t \in PairThreads : validate_finish(t)
    \/ \E t \in PairThreads, o \in Owners : generate_load(t, o)
    \/ \E t \in PairThreads : generate_save(t)
    \/ \E t \in PairThreads, k \in KeyIds, o \in Owners : revoke_load(t, k, o)
    \/ \E t \in PairThreads : revoke_save(t)
    \/ \E t \in PairThreads, o \in Owners : list_keys(t, o)

SpecKeysPair == Init /\ [][NextKeysPair]_vars

\* the key store used by one caller, one call after the other
NextKeysSeq ==
    \/ \E s \in Secrets : validate_begin(1, s)
    \/ validate_acquire(1)
    \/ validate_load(1)
    \/ validate_finish(1)
    \/ \E o \in Owners : generate_load(1, o)
    \/ generate_save(1)
    \/ \E k \in KeyIds, o \in Owners : revoke_load(1, k, o)
    \/ revoke_save(1)
    \/ \E o \in Owners : list_keys(1, o)

SpecKeysSeq == Init /\ [][NextKeysSeq]_vars

\* users.json used by two request threads
InitUsers == KeysInit /\ StreamIdle /\ SMInit /\ FilesInit

NextUsers ==
    \/ \E t \in MThreads, e \in Emails, p \in Passwords : create_user_load(t, e, p)
    \/ \E t \in MThreads, salt \in Salts : create_user_save(t, salt)
    \/ \E t \in MThreads, e \in Emails, p \in Passwords : authenticate_user(t, e, p)

SpecUsers == InitUsers /\ [][NextUsers]_vars

\* users.json used by one caller, one call after the other
NextUsersSeq ==
    \/ \E e \in Emails, p \in Passwords : create_user_load(1, e, p)
    \/ \E salt \in Salts : create_user_save(1, salt)
    \/ \E e \in Emails, p \in Passwords : authenticate_user(1, e, p)

SpecUsersSeq == InitUsers /\ [][NextUsersSeq]_vars

\* the session files used by one caller, one call after the other
InitSessions == KeysInit /\ SessionsInit /\ FilesInit

NextSessionSeq ==
    \/ \E o \in SessionOwners : create_session_write(1, o)
    \/ create_session_load(1)
    \/ create_session_save(1)
    \/ \E sid \in SessionIds : get_session_call(1, sid)
    \/ \E sid \in SessionIds : get_conversation_history_call(1, sid)
    \/ \E sid \in SessionIds : save_session(1, sid, ShellRecord(sid))
    \/ \E sid \in SessionIds, m \in Messages : add_message_load(1, sid, m)
    \/ add_message_save(1)
    \/ \E sid \in SessionIds, o \in SessionOwners : delete_session_check(1, sid, o)
    \/ delete_session_unlink(1)
    \/ delete_session_remove(1)

SpecSessionSeq == InitSessions /\ [][NextSessionSeq]_vars

\* the session files and users.json used by two request threads
NextSessions ==
    \/ \E t \in MThreads, o \in SessionOwners : create_session_write(t, o)
    \/ \E t \in MThreads : create_session_load(t)
    \/ \E t \in MThreads : create_session_save(t)
    \/ \E t \in MThreads, sid \in SessionIds, m \in Messages : add_message_load(t, sid, m)
    \/ \E t \in MThreads : add_message_save(t)

SpecSessions == InitSessions /\ [][NextSessions]_vars

\* a process that finds its backing files as an earlier run or a crash left
\* them: each of api_keys.json and users.json parses, is missing or does not
\* parse, and so does each session file; the stores are what the files held
InitLoad ==
    /\ KeysInitStored /\ usage0 = 0 /\ DOMAIN keys = {1}
    /\ SessionsInit
    /\ files \in [keys : FileStates, users : FileStates,
                  sessions : SUBSET {NewSessionId(n) : n \in 1..Len(AliceSessions)}]

\* the calls that only load
NextLoad ==
    \/ \E s \in {NewSecret(1), BogusSecret} : validate_begin(1, s)
    \/ validate_acquire(1)
    \/ validate_load(1)
    \/ validate_finish(1)
    \/ \E e \in Emails, p \in Passwords : authenticate_user(1, e, p)
    \/ \E e \in Emails : get_user_sessions(1, e)
    \/ \E sid \in SessionIds : get_session_call(1, sid)

SpecLoad == InitLoad /\ [][NextLoad]_vars

\* the session list of alice and the session files an earlier run left:
\* sessions created in order, some deleted, some files gone or damaged, with
\* transcripts that start with either role and hold a long question
LongQuestion == [i \in 1..(PREVIEW_LENGTH + 1) |-> IF i > PREVIEW_LENGTH THEN "!" ELSE "q"]

PreviewTranscripts ==
    {<<>>,
     <<[role |-> "assistant", content |-> ShortResult]>>,
     <<[role |-> "assistant", content |-> ShortResult],
       [role |-> "user", content |-> LongQuestion],
       [role |-> "user", content |-> question]>>,
     <<[role |-> "user", content |-> question],
       [role |-> "user", content |-> LongQuestion]>>}

PreviewIds == {NewSessionId(n) : n \in 1..3}

PreviewLists ==
    {<<>>, <<NewSessionId(1)>>, <<NewSessionId(1), NewSessionId(2)>>,
     <<NewSessionId(2), NewSessionId(3)>>,
     <<NewSessionId(1), NewSessionId(2), NewSessionId(3)>>}

InitPreview ==
    /\ KeysInit
    /\ \E list \in PreviewLists :
          users = Put(EmptyStore, "alice@x",
                      [email |-> "alice@x",
                       password_hash |-> generate_password_hash("pw1", 1),
                       created_at |-> 0, sessions |-> list])
    /\ \E present \in SUBSET PreviewIds : \E transcript \in [present -> PreviewTranscripts] :
          sessions = [sid \in present |->
                         [session_id |-> sid, user_email |-> "alice@x",
                          messages |-> transcript[sid]]]
    /\ files \in [keys : {"ok"}, users : {"ok"}, sessions : SUBSET {NewSessionId(1)}]
    /\ files.sessions \subseteq DOMAIN sessions
    /\ mpc = [t \in MThreads |-> "idle"]
    /\ mcall = [t \in MThreads |-> NoMCall]
    /\ msnap = [t \in MThreads |-> EmptyStore]
    /\ mret = [t \in MThreads |-> MNone]
    /\ mops = 0
    /\ nextSid = Cardinality(PreviewIds)
    /\ fslog = [t \in MThreads |-> {}]
    /\ registered = <<[email |-> "alice@x", password |-> "pw1",
                       password_hash |-> generate_password_hash("pw1", 1)]>>
    /\ bridge = "web"
    /\ session_id = NoCookie
    /\ spc = "closed"
    /\ chunks = <<>>
    /\ frames = <<>>
    /\ full_response = <<>>
    /\ analytics = <<>>
    /\ loop = "none"
    /\ exc = NoExc
    /\ calls = <<>>

NextPreview ==
    \/ \E e \in Emails : get_all_user_sessions_with_preview(1, e)
    \/ \E e \in Emails : get_user_sessions(1, e)

SpecPreview == InitPreview /\ [][NextPreview]_vars

\* chat requests that carry the session_id cookie of one of alice's sessions:
\* api_archie and api_archie_stream.generate end with the same two calls,
\* add_message(session_id, "user", question) and then
\* add_message(session_id, "assistant", answer)
ChatQuestion(t) == <<"q", t>>
ChatAnswer(t) == <<"a", t>>

\* the add_message call request t makes next, none once both are made
ChatNext(t) ==
    IF mcall[t].op = "none" THEN "user"
    ELSE IF mcall[t].role = "user" THEN "assistant"
    ELSE "none"

\* session_manager.add_message(session_id, "user", question), up to the load
chat_add_user(t, sid) ==
    /\ ChatNext(t) = "user"
    /\ MBegin(t, Call("add_message", "None", "", sid, "user", ChatQuestion(t)))
    /\ add_message_read(t, sid)

\* session_manager.add_message(session_id, "assistant", answer), up to the load
chat_add_assistant(t) ==
    /\ ChatNext(t) = "assistant"
    /\ MBegin(t, Call("add_message", "None", "", mcall[t].sid, "assistant", ChatAnswer(t)))
    /\ add_message_read(t, mcall[t].sid)

NextChat ==
    \/ \E t \in MThreads, i \in 1..Len(AliceSessions) : chat_add_user(t, AliceSessions[i])
    \/ \E t \in MThreads : chat_add_assistant(t)
    \/ \E t \in MThreads : add_message_save(t)

SpecChat == InitSessions /\ [][NextChat]_vars

\* one caller that makes only the calls that create and delete accounts,
\* sessions and messages, one after the other
NextStoreOps ==
    \/ \E e \in Emails, p \in Passwords : create_user_load(1, e, p)
    \/ \E salt \in Salts : create_user_save(1, salt)
    \/ \E o \in SessionOwners : create_session_write(1, o)
    \/ create_session_load(1)
    \/ create_session_save(1)
    \/ \E sid \in SessionIds, m \in Messages : add_message_load(1, sid, m)
    \/ add_message_save(1)
    \/ \E sid \in SessionIds, o \in SessionOwners : delete_session_check(1, sid, o)
    \/ delete_session_unlink(1)
    \/ delete_session_remove(1)

SpecStoreOps == InitSessions /\ [][NextStoreOps]_vars

\* two request threads that delete sessions
NextDeletePair ==
    \/ \E t \in MThreads, sid \in SessionIds, o \in SessionOwners :
          delete_session_check(t, sid, o)
    \/ \E t \in MThreads : delete_session_unlink(t)
    \/ \E t \in MThreads : delete_session_remove(t)

SpecDeletePair == InitSessions /\ [][NextDeletePair]_vars

\* ------------------------------------------------------------ DataCollector
\* the record log_interaction appends for the request served by thread t
Interaction(t, sid) ==
    [session_id |-> sid, question |-> ChatQuestion(t), answer |-> ChatAnswer(t)]

\* session_id handed to log_interaction by a web handler
LoggedSessionIds == {LogSessionId("web", NoCookie), LogSessionId("web", GoodSid)}

\* log_interaction: build the record, read analytics.json into data (a file
\* that is missing or does not parse reads as [])
log_interaction_read(t, sid) ==
    /\ MBegin(t, Call("log_interaction", "None", "", sid, "", <<>>))
    /\ msnap' = [msnap EXCEPT ![t] = analytics]
    /\ mret' = [mret EXCEPT ![t] = MNone]
    /\ fslog' = [fslog EXCEPT ![t] = {}]
    /\ mpc' = [mpc EXCEPT ![t] = "li_read"]
    /\ UNCHANGED <<users, nextSid, registered, analytics>>
    /\ UNCHANGED <<bridge, session_id, spc, chunks, frames, full_response, sessions,
                   loop, exc, calls>>
    /\ UNCHANGED <<kvars, files>>

\* log_interaction: data.append(interaction); open(self.json_file, "w")
\* truncates the file, which from then on reads as [] until the dump is done
log_interaction_open(t) ==
    /\ mpc[t] = "li_read"
    /\ analytics' = <<>>
    /\ mpc' = [mpc EXCEPT ![t] = "li_open"]
    /\ UNCHANGED <<users, mcall, msnap, mret, mops, nextSid, fslog, registered>>
    /\ UNCHANGED <<bridge, session_id, spc, chunks, frames, full_response, sessions,
                   loop, exc, calls>>
    /\ UNCHANGED <<kvars, files>>

\* log_interaction: json.dump(data, f)
log_interaction_dump(t) ==
    /\ mpc[t] = "li_open"
    /\ analytics' = Append(msnap[t], Interaction(t, mcall[t].sid))
    /\ mpc' = [mpc EXCEPT ![t] = "done"]
    /\ msnap' = [msnap EXCEPT ![t] = EmptyStore]
    /\ UNCHANGED <<users, mcall, mret, mops, nextSid, fslog, registered>>
    /\ UNCHANGED <<bridge, session_id, spc, chunks, frames, full_response, sessions,
                   loop, exc, calls>>
    /\ UNCHANGED <<kvars, files>>

\* analytics.json used by two request threads
NextLog ==
    \/ \E t \in MThreads, sid \in LoggedSessionIds : log_interaction_read(t, sid)
    \/ \E t \in MThreads : log_interaction_open(t)
    \/ \E t \in MThreads : log_interaction_dump(t)

SpecLog == InitUsers /\ [][NextLog]_vars

\* add_message called by one caller on session files that carry their
\* creation time and of which any may fail to parse
StoredSession(n, transcript) ==
    [session_id |-> NewSessionId(n), user_email |-> "alice@x", created_at |-> n,
     messages |-> transcript]

InitAddMessage ==
    /\ KeysInit
    /\ users = Put(EmptyStore, "alice@x",
                   [email |-> "alice@x",
                    password_hash |-> generate_password_hash("pw1", 1),
                    created_at |-> 0, sessions |-> AliceSessions])
    /\ sessions = Put(Put(EmptyStore, NewSessionId(1),
                          StoredSession(1, <<[role |-> "user", content |-> <<"y", "o">>]>>)),
                      NewSessionId(2), StoredSession(2, <<>>))
    /\ files \in [keys : {"ok"}, users : {"ok"}, sessions : SUBSET DOMAIN sessions]
    /\ mpc = [t \in MThreads |-> "idle"]
    /\ mcall = [t \in MThreads |-> NoMCall]
    /\ msnap = [t \in MThreads |-> EmptyStore]
    /\ mret = [t \in MThreads |-> MNone]
    /\ mops = 0
    /\ nextSid = Len(AliceSessions)
    /\ fslog = [t \in MThreads |-> {}]
    /\ registered = <<[email |-> "alice@x", password |-> "pw1",
                       password_hash |-> generate_password_hash("pw1", 1)]>>
    /\ bridge = "web" /\ session_id = NoCookie /\ spc = "closed"
    /\ chunks = <<>> /\ frames = <<>> /\ full_response = <<>>
    /\ analytics = <<>> /\ loop = "none" /\ exc = NoExc /\ calls = <<>>

NextAddMessage ==
    \/ \E sid \in SessionIds, m \in Messages : add_message_load(1, sid, m)
    \/ add_message_save(1)

SpecAddMessage == InitAddMessage /\ [][NextAddMessage]_vars

\* ------------------------------------------------------------------ claims
InFlight == {t \in Threads : kpc[t] \notin {"idle", "done"}}

\* C1: when the request threads run nothing but validate_api_key calls for
\* the secret of the active key 1, every call that has returned has returned
\* metadata, and the persisted usage_count of key 1 is its starting value
\* plus the number of calls that have returned: no increment is lost, and
\* once all N calls have returned the count is exactly N higher.
C1_NoLostIncrement ==
    /\ \A t \in Threads : kpc[t] = "done" => kret[t].kind = "meta"
    /\ keys[1].usage_count = usage0 + ops - Cardinality(InFlight)

\* a call has loaded the file under the lock while another call waits for
\* the lock, after an earlier call completed
C1_Witness ==
    \E t, u \in Threads :
        /\ kpc[t] = "v_loaded" /\ kpc[u] = "v_wait"
        /\ keys[1].usage_count > usage0

\* C2: a validate_api_key call that loads the store right after the
\* generate_api_key call that created its secret wrote it returns metadata,
\* and a validate_api_key call that starts after revoke_api_key has returned
\* True for the key of its secret returns None.
C2_RevokedSecretNeverValidates ==
    \A t \in Threads :
        (kpc[t] = "done" /\ kcall[t].op = "validate") =>
            /\ kcall[t].fresh => kret[t].kind = "meta"
            /\ kcall[t].afterRevoke => kret[t].kind = "none"

\* C8: the mutations of api_keys.json are serialized: once no call is in
\* flight the store is the result of the calls in some serial order, so it
\* holds every key a generate_api_key call has created and every key a
\* revoke_api_key call has revoked is inactive in it.
C8_MutationsSerialized ==
    InFlight = {} =>
        /\ \A k \in 1..nextKey : k \in DOMAIN keys
        /\ \A k \in revoked : k \in DOMAIN keys /\ ~keys[k].is_active

\* C9: is_active is one-way: no step takes a stored key record from
\* is_active false to is_active true.
C9_IsActiveOneWay ==
    [][\A k \in DOMAIN keys :
          (~keys[k].is_active /\ k \in DOMAIN keys') => ~keys'[k].is_active]_vars

\* C10: usage_count never decreases: no step makes the persisted
\* usage_count of a stored key smaller.
C10_UsageCountMonotone ==
    [][\A k \in DOMAIN keys :
          k \in DOMAIN keys' => keys'[k].usage_count >= keys[k].usage_count]_vars

Terminal(f) == f.kind \in {"done", "error"}
HasDone == \E i \in 1..Len(frames) : frames[i].kind = "done"
LastFrame == frames[Len(frames)]
IsTextDelta(c) == c.type = "str"
IsToolEvent(c) == c.type = "dict" /\ c.tool_name # ""

\* the wire frames owed to a chunk sequence: a token per TextDelta, a tool
\* call per ToolEvent, nothing for any other chunk
RECURSIVE OwedFrames(_)
OwedFrames(cs) ==
    IF cs = <<>> THEN <<>>
    ELSE LET c == cs[Len(cs)]
             front == OwedFrames(SubSeq(cs, 1, Len(cs) - 1))
         IN IF IsTextDelta(c) THEN Append(front, [kind |-> "token", text |-> c.text, tool_name |-> ""])
            ELSE IF IsToolEvent(c)
                   THEN Append(front, [kind |-> "tool_call", text |-> <<>>, tool_name |-> c.tool_name])
            ELSE front

\* a frame without the preview of a tool call
Shape(f) == IF f.kind = "tool_call" THEN [f EXCEPT !.text = <<>>] ELSE f

\* the token and tool call frames on the wire, in order
RECURSIVE WireFrames(_)
WireFrames(fs) ==
    IF fs = <<>> THEN <<>>
    ELSE LET f == fs[Len(fs)]
             front == WireFrames(SubSeq(fs, 1, Len(fs) - 1))
         IN IF f.kind \in {"token", "tool_call"} THEN Append(front, Shape(f)) ELSE front

\* the concatenation of the texts of the TextDeltas of a chunk sequence
RECURSIVE DeltaText(_)
DeltaText(cs) ==
    IF cs = <<>> THEN <<>>
    ELSE (IF IsTextDelta(Head(cs)) THEN Head(cs).text ELSE <<>>) \o DeltaText(Tail(cs))

\* C3: a finished streaming request has emitted exactly one terminal frame
\* (done or error), and a terminal frame is never followed by another frame.
C3_ExactlyOneTerminalFrame ==
    /\ \A i \in 1..Len(frames) : Terminal(frames[i]) => i = Len(frames)
    /\ (spc = "closed" /\ loop = "closed") => (frames # <<>> /\ Terminal(LastFrame))

\* C4: when the done frame is on the wire, the user question and the
\* accumulated answer are the last two messages of the session transcript
\* (when the request carries a session id), the analytics record of the
\* request is stored, and these calls were made in that order.
C4_DoneAfterPersistence ==
    HasDone =>
        /\ (bridge = "web" /\ session_id # <<>>) =>
              /\ session_id \in DOMAIN sessions
              /\ LET m == sessions[session_id].messages
                 IN /\ Len(m) >= 2
                    /\ m[Len(m) - 1] = [role |-> "user", content |-> question]
                    /\ m[Len(m)] = [role |-> "assistant", content |-> full_response]
              /\ Len(calls) = 3
              /\ calls[1].fn = "add_message" /\ calls[1].role = "user"
              /\ calls[2].fn = "add_message" /\ calls[2].role = "assistant"
        /\ calls # <<>> /\ calls[Len(calls)].fn = "log_interaction"
        /\ analytics # <<>>
        /\ analytics[Len(analytics)].question = question
        /\ analytics[Len(analytics)].answer = full_response

\* the web bridge has put done on the wire for a request with a session
C4_Witness ==
    /\ HasDone /\ bridge = "web" /\ session_id = GoodSid
    /\ Len(chunks) >= 2 /\ full_response # <<>>

\* C5: when the producer has raised after k chunks, the finished request has
\* emitted the frames of those chunks followed by exactly one error frame,
\* no done frame, and has made no add_message or log_interaction call.
C5_ProducerFailureYieldsError ==
    (spc = "closed" /\ exc.src = "producer") =>
        /\ frames # <<>>
        /\ LastFrame.kind = "error"
        /\ WireFrames(frames) = OwedFrames(chunks)
        /\ \A i \in 1..Len(frames) : Terminal(frames[i]) => i = Len(frames)
        /\ calls = <<>>

\* C6: the token and tool call frames on the wire are, in order, exactly one
\* token frame with the delta's text per TextDelta and one tool call frame
\* with the tool's name per ToolEvent the producer has yielded; a Final
\* chunk owes no frame, and deltas are neither merged nor reordered.
C6_FramesFollowChunks == WireFrames(frames) = OwedFrames(chunks)

\* two adjacent deltas, one of them empty, then a tool event and a Final
C6_Witness ==
    /\ Len(chunks) >= 3
    /\ \E i \in 1..(Len(chunks) - 1) :
          /\ IsTextDelta(chunks[i]) /\ IsTextDelta(chunks[i + 1])
          /\ chunks[i].text = <<>> \/ chunks[i + 1].text = <<>>
    /\ \E i \in 1..Len(chunks) : IsToolEvent(chunks[i]) \/ chunks[i].final
    /\ Len(frames) >= 2

\* what claim C7 promises of a finished request
C7_Outcome ==
    /\ frames # <<>> /\ LastFrame.kind = "done"
    /\ WireFrames(SelectSeq(frames, LAMBDA f : f.kind = "token"))
         = OwedFrames(SelectSeq(chunks, IsTextDelta))
    /\ (bridge = "web" /\ session_id # <<>>) =>
          /\ session_id \in DOMAIN sessions
          /\ LET m == sessions[session_id].messages
             IN m # <<>> /\ m[Len(m)] = [role |-> "assistant", content |-> DeltaText(chunks)]
    /\ analytics # <<>> /\ analytics[Len(analytics)].answer = DeltaText(chunks)

KeyRecordFields ==
    {"key_id", "key_hash", "name", "owner_email", "last_used", "is_active", "usage_count"}

\* C11: no record of api_keys.json holds a raw secret (the record has no
\* api_key field and its key_hash is not a secret), and no value returned
\* by validate_api_key, revoke_api_key or list_keys holds one: only the
\* result of generate_api_key carries the secret.
C11_SecretOnlyFromGenerate ==
    /\ \A k \in DOMAIN keys :
          /\ DOMAIN keys[k] = KeyRecordFields
          /\ keys[k].key_hash \notin Secrets
    /\ \A t \in Threads :
          /\ kret[t].kind = "meta" =>
                /\ DOMAIN kret[t].data = KeyRecordFields
                /\ kret[t].data.key_hash \notin Secrets
          /\ kret[t].kind = "list" =>
                \A i \in 1..Len(kret[t].entries) :
                    DOMAIN kret[t].entries[i] \cap {"api_key", "key_hash"} = {}
          /\ kret[t].kind \in {"none", "bool"} => DOMAIN kret[t] \subseteq {"kind", "val"}
          /\ kret[t].kind = "gen" => kcall[t].op = "generate"

\* one thread holds the metadata validate_api_key returned, the other the
\* listing of an owner who has a key
C11_Witness ==
    \E t, u \in Threads :
        /\ kpc[t] = "done" /\ kret[t].kind = "meta"
        /\ kpc[u] = "done" /\ kret[u].kind = "list" /\ kret[u].entries # <<>>

\* C19: with one caller, revoke_api_key returns False and writes nothing when
\* the key id is unknown or the owner differs from the stored one; otherwise
\* it returns True and the store afterwards is the store before with
\* is_active of that key false and nothing else changed.
C19_RevokeEffect ==
    [][/\ (kpc[1] \in {"idle", "done"} /\ ops' = ops + 1 /\ kcall'[1].op = "revoke") =>
            LET k == kcall'[1].key_id
                o == kcall'[1].owner_email
            IN /\ keys' = keys
               /\ IF k \notin DOMAIN keys \/ keys[k].owner_email # o
                    THEN kpc'[1] = "done" /\ kret'[1] = RetBool(FALSE)
                    ELSE kpc'[1] = "r_loaded"
       /\ (kpc[1] = "r_loaded" /\ kpc'[1] = "done") =>
            LET k == kcall[1].key_id
            IN /\ kret'[1] = RetBool(TRUE)
               /\ k \in DOMAIN keys /\ keys[k].owner_email = kcall[1].owner_email
               /\ keys' = [keys EXCEPT ![k].is_active = FALSE]
      ]_vars

\* revoke_api_key has returned True for an active key while another key is
\* stored
C19_Witness ==
    /\ kpc[1] = "done" /\ kcall[1].op = "revoke" /\ kret[1] = RetBool(TRUE)
    /\ Cardinality(DOMAIN keys) >= 2
    /\ ~keys[kcall[1].key_id].is_active
    /\ \E k \in DOMAIN keys : keys[k].is_active

\* a create_user call of thread t has returned
CreateUserDone(t) == mpc[t] = "done" /\ mcall[t].op = "create_user"

\* C16: create_user returns False for an email that already has an account
\* and leaves users.json as it was; otherwise it returns True and stores a
\* record for the email with a hash of the password and an empty session
\* list, every other record unchanged.
C16_CreateUserEffect ==
    CreateUserDone(1) =>
        LET before == mcall[1].pre.users
            email == mcall[1].email
        IN IF email \in DOMAIN before
             THEN mret[1] = MBool(FALSE) /\ users = before
             ELSE /\ mret[1] = MBool(TRUE)
                  /\ DOMAIN users = DOMAIN before \cup {email}
                  /\ users[email].email = email
                  /\ users[email].password_hash.digest =
                         Digest(users[email].password_hash.salt, mcall[1].password)
                  /\ users[email].sessions = <<>>
                  /\ \A other \in DOMAIN before : users[other] = before[other]

\* create_user has refused an email that has an account under another
\* password, next to a second account
C16_Witness ==
    /\ CreateUserDone(1) /\ mret[1] = MBool(FALSE)
    /\ mcall[1].email \in DOMAIN users
    /\ ~check_password_hash(users[mcall[1].email].password_hash, mcall[1].password)
    /\ Cardinality(DOMAIN users) = 2

\* C17: when two create_user calls with the same unused email run
\* concurrently, exactly one returns True and the stored record carries the
\* password hash of that call.
C17_OneAccountPerEmail ==
    \A t, u \in MThreads :
        (/\ t # u /\ CreateUserDone(t) /\ CreateUserDone(u)
         /\ mcall[t].email = mcall[u].email
         /\ mcall[t].email \notin DOMAIN mcall[t].pre.users
         /\ mcall[u].email \notin DOMAIN mcall[u].pre.users) =>
            /\ mret[t].val # mret[u].val
            /\ mret[t].val =>
                   check_password_hash(users[mcall[t].email].password_hash,
                                       mcall[t].password)

\* an authenticate_user call of thread t has returned
AuthenticateDone(t) == mpc[t] = "done" /\ mcall[t].op = "authenticate_user"

\* the password the account of email was created with
RegisteredWith(email, password) ==
    \E i \in 1..Len(registered) :
        /\ registered[i].email = email
        /\ registered[i].password = password
        /\ users[email].password_hash = registered[i].password_hash

\* C18: authenticate_user returns True only for an email that has an account
\* and the password that account was created with; it returns the one value
\* False for an unknown email and for a wrong password, and it leaves
\* users.json as it was.
C18_AuthenticateSound ==
    AuthenticateDone(1) =>
        LET email == mcall[1].email
        IN /\ users = mcall[1].pre.users
           /\ mret[1] \in {MBool(TRUE), MBool(FALSE)}
           /\ mret[1] = MBool(TRUE) =>
                  email \in DOMAIN users /\ RegisteredWith(email, mcall[1].password)
           /\ email \notin DOMAIN users => mret[1] = MBool(FALSE)
           /\ (email \in DOMAIN users /\ ~RegisteredWith(email, mcall[1].password)) =>
                  mret[1] = MBool(FALSE)

\* authenticate_user has accepted the password of one of two accounts
C18_Witness ==
    /\ AuthenticateDone(1) /\ mret[1] = MBool(TRUE)
    /\ Cardinality(DOMAIN users) = 2

\* a session call of thread t has returned
SessionCallDone(t, op) == mpc[t] = "done" /\ mcall[t].op = op

\* every character is alphanumeric, dash or underscore
CharsetOnly(sid) == \A i \in 1..Len(sid) : sid[i] \in AllowedChars

\* C12: the id create_session returns passes the validity check (allowed
\* charset, at most 64 characters), and a get_session on it directly after
\* returns the record with that id, the owner passed and no messages.
C12_CreateThenGet ==
    [][/\ SessionCallDone(1, "create_session")' =>
            LET sid == mret'[1].sid
            IN /\ _is_valid_session_id(sid)
               /\ sid # <<>> /\ CharsetOnly(sid) /\ Len(sid) <= SESSION_ID_MAX_LEN
       /\ (/\ SessionCallDone(1, "create_session")
           /\ SessionCallDone(1, "get_session")'
           /\ mcall'[1].sid = mret[1].sid) =>
              mret'[1] = MSession([session_id |-> mret[1].sid,
                                   user_email |-> mcall[1].email,
                                   messages |-> <<>>])
      ]_vars

\* get_session has returned the record of the session alice created in the
\* call before
C12_Witness ==
    /\ SessionCallDone(1, "get_session")
    /\ mcall[1].sid = NewSessionId(3)
    /\ mret[1] = MSession([session_id |-> NewSessionId(3), user_email |-> "alice@x",
                           messages |-> <<>>])
    /\ mops = 2

\* an id the session store has to refuse: empty, too long, or with a
\* character outside the charset (a path separator is one)
RefusedId(sid) == sid = <<>> \/ Len(sid) > SESSION_ID_MAX_LEN \/ ~CharsetOnly(sid)

\* C13: for an id that is empty, longer than 64 characters or has a
\* character outside alphanumerics, dash and underscore, get_session returns
\* None and delete_session returns False, without any file access and
\* without a change of users.json.
C13_RefusedIdsTouchNothing ==
    \A op \in {"get_session", "delete_session"} :
        (SessionCallDone(1, op) /\ RefusedId(mcall[1].sid)) =>
            /\ mret[1] = IF op = "get_session" THEN MNone ELSE MBool(FALSE)
            /\ fslog[1] = {}
            /\ users = mcall[1].pre.users
            /\ sessions = mcall[1].pre.sessions

\* C14: every file access is on an id that passed the validity check;
\* add_message and save_session with an id that fails it raise and leave the
\* files as they were, and get_conversation_history with such an id returns
\* the empty list without file access.
C14_ValidatedBeforeAccess ==
    /\ \A t \in MThreads : \A a \in fslog[t] : _is_valid_session_id(a.sid)
    /\ \A op \in {"add_message", "save_session"} :
           (SessionCallDone(1, op) /\ ~_is_valid_session_id(mcall[1].sid)) =>
               /\ mret[1] = MRaise("ValueError")
               /\ fslog[1] = {}
               /\ sessions = mcall[1].pre.sessions
    /\ (SessionCallDone(1, "get_conversation_history")
            /\ ~_is_valid_session_id(mcall[1].sid)) =>
           mret[1] = MList(<<>>) /\ fslog[1] = {}

\* add_message has raised for an id with a path separator
C14_Witness ==
    /\ SessionCallDone(1, "add_message")
    /\ mcall[1].sid = BadSid
    /\ mret[1] = MRaise("ValueError")

\* the transcript stored for an id
Transcript(store, sid) == IF sid \in DOMAIN store THEN store[sid].messages ELSE <<>>

\* C15: add_message puts its message, role and content as given, behind the
\* messages the transcript had, and get_conversation_history returns the
\* transcript in that order.
C15_HistoryInInsertionOrder ==
    /\ (SessionCallDone(1, "add_message") /\ mret[1] = MNone) =>
           Transcript(sessions, mcall[1].sid) =
               Transcript(mcall[1].pre.sessions, mcall[1].sid)
                   \o <<[role |-> mcall[1].role, content |-> mcall[1].content]>>
    /\ (SessionCallDone(1, "get_conversation_history")
            /\ _is_valid_session_id(mcall[1].sid)) =>
           mret[1] = MList(Transcript(sessions, mcall[1].sid))

\* get_conversation_history has returned the earlier message followed by the
\* one add_message stored in the call before
C15_Witness ==
    /\ SessionCallDone(1, "get_conversation_history")
    /\ mops = 2
    /\ mret[1] = MList(<<[role |-> "user", content |-> <<"y", "o">>],
                         [role |-> "assistant", content |-> ShortResult]>>)

\* the list without the id, the other ids in their order
Without(list, sid) == SelectSeq(list, LAMBDA x : x # sid)

\* C20: with one caller, delete_session on a valid id returns False and
\* changes neither the session files nor users.json when the file does not
\* exist; when it exists it returns True, the file is gone, and the owner's
\* session list is the list before without the id.
C20_DeleteEffect ==
    (SessionCallDone(1, "delete_session") /\ _is_valid_session_id(mcall[1].sid)) =>
        LET sid == mcall[1].sid
            owner == mcall[1].email
            before == mcall[1].pre
        IN IF sid \notin DOMAIN before.sessions
             THEN /\ mret[1] = MBool(FALSE)
                  /\ sessions = before.sessions
                  /\ users = before.users
             ELSE /\ mret[1] = MBool(TRUE)
                  /\ sessions = Remove(before.sessions, sid)
                  /\ get_session(sessions, sid) = <<>>
                  /\ DOMAIN users = DOMAIN before.users
                  /\ \A e \in DOMAIN users :
                         IF e = owner
                           THEN /\ ~InList(users[e].sessions, sid)
                                /\ users[e].sessions = Without(before.users[e].sessions, sid)
                                /\ [users[e] EXCEPT !.sessions = <<>>] =
                                       [before.users[e] EXCEPT !.sessions = <<>>]
                           ELSE users[e] = before.users[e]

\* delete_session has removed the middle one of alice's three sessions
C20_Witness ==
    /\ SessionCallDone(1, "delete_session")
    /\ mret[1] = MBool(TRUE)
    /\ mcall[1].sid = NewSessionId(2)
    /\ users["alice@x"].sessions = <<NewSessionId(1), NewSessionId(3)>>

\* C21: with one caller, create_session for an owner that has an account
\* puts the new id behind the ids the owner's session list had and changes
\* nothing else of users.json; with no owner, or an owner without an
\* account, users.json stays as it was.
C21_SessionListInCreationOrder ==
    SessionCallDone(1, "create_session") =>
        LET owner == mcall[1].email
            before == mcall[1].pre.users
        IN IF owner # "None" /\ owner \in DOMAIN before
             THEN /\ DOMAIN users = DOMAIN before
                  /\ users[owner].sessions = before[owner].sessions \o <<mret[1].sid>>
                  /\ [users[owner] EXCEPT !.sessions = <<>>] =
                         [before[owner] EXCEPT !.sessions = <<>>]
                  /\ \A e \in DOMAIN before : e # owner => users[e] = before[e]
             ELSE users = before

\* alice's list holds her three sessions in the order they were created
C21_Witness ==
    /\ SessionCallDone(1, "create_session")
    /\ mcall[1].email = "alice@x"
    /\ users["alice@x"].sessions = <<NewSessionId(1), NewSessionId(2), NewSessionId(3)>>

\* a session file of an account's owner whose id the owner's list lacks
Orphaned(sid) ==
    /\ sid \in DOMAIN sessions
    /\ sessions[sid].user_email \in DOMAIN users
    /\ ~InList(users[sessions[sid].user_email].sessions, sid)

\* C22: create_session writes the session file and links the id in two
\* steps: the step that writes the file leaves users.json as it is, so the
\* file is there unlisted until the later save, and that save writes the
\* users it loaded with the id appended, whatever users.json holds by then.
C22_WriteAndLinkAreSeparate ==
    [][\A t \in MThreads :
          /\ (mpc[t] \in {"idle", "done"} /\ mpc'[t] = "cs_written") =>
                 /\ users' = users
                 /\ mcall'[t].sid \in DOMAIN sessions'
                 /\ mcall'[t].email \in DOMAIN users' =>
                        ~InList(users'[mcall'[t].email].sessions, mcall'[t].sid)
          /\ (mpc[t] = "cs_loaded" /\ mpc'[t] = "done") =>
                 users' = [msnap[t] EXCEPT ![mcall[t].email].sessions =
                                               @ \o <<mcall[t].sid>>]
      ]_vars

\* both create_session calls of alice have returned and the file of one of
\* them is not in her list
C22_Witness ==
    /\ \A t \in MThreads : SessionCallDone(t, "create_session") /\ mcall[t].email = "alice@x"
    /\ \E t \in MThreads : Orphaned(mcall[t].sid)

\* C23: add_message saves the record it loaded with its message appended,
\* whatever the file holds by then: the load and the save are two steps with
\* no exclusion between them.
C23_SaveWritesLoadedRecord ==
    [][\A t \in MThreads :
          (mpc[t] = "am_loaded" /\ mpc'[t] = "done" /\ mret'[t] = MNone) =>
              /\ mcall[t].sid \in DOMAIN sessions'
              /\ sessions'[mcall[t].sid].messages =
                     msnap[t].messages
                         \o <<[role |-> mcall[t].role, content |-> mcall[t].content]>>
      ]_vars

\* two add_message calls on the same stored session have returned and its
\* transcript has one message more than before, not two
C23_Witness ==
    /\ \A t \in MThreads : SessionCallDone(t, "add_message") /\ mret[t] = MNone
    /\ mcall[1].sid = mcall[2].sid
    /\ mcall[1].content # mcall[2].content
    /\ mcall[1].sid \in DOMAIN mcall[1].pre.sessions
    /\ mcall[1].sid \in DOMAIN mcall[2].pre.sessions
    /\ Len(Transcript(sessions, mcall[1].sid)) =
           Len(Transcript(mcall[1].pre.sessions, mcall[1].sid)) + 1
    /\ Transcript(mcall[1].pre.sessions, mcall[1].sid) =
           Transcript(mcall[2].pre.sessions, mcall[2].sid)

\* the ids of the stored keys of an owner
OwnedKeys(owner_email) == {k \in DOMAIN keys : keys[k].owner_email = owner_email}

\* C24: list_keys returns one entry for every stored key of the owner, active
\* or revoked, no entry for a key of another owner, no entry with a key_hash
\* field, and leaves the key store as it was.
C24_ListKeysOwnMetadataOnly ==
    [][(kpc[1] \in {"idle", "done"} /\ ops' = ops + 1 /\ kcall'[1].op = "list") =>
          LET owner_email == kcall'[1].owner_email
              entries == kret'[1].entries
          IN /\ keys' = keys
             /\ kret'[1].kind = "list"
             /\ Len(entries) = Cardinality(OwnedKeys(owner_email))
             /\ \A k \in OwnedKeys(owner_email) :
                    \E i \in 1..Len(entries) :
                        /\ entries[i].key_id = k
                        /\ entries[i].is_active = keys[k].is_active
                        /\ entries[i].usage_count = keys[k].usage_count
             /\ \A i \in 1..Len(entries) :
                    /\ entries[i].key_id \in OwnedKeys(owner_email)
                    /\ "key_hash" \notin DOMAIN entries[i]
      ]_vars

\* list_keys has returned the one key of an owner, a revoked one, while the
\* store holds a key of the other owner
C24_Witness ==
    /\ kpc[1] = "done" /\ kcall[1].op = "list" /\ kret[1].kind = "list"
    /\ Len(kret[1].entries) = 1
    /\ ~kret[1].entries[1].is_active
    /\ OwnedKeys(kcall[1].owner_email) = {kret[1].entries[1].key_id}
    /\ Cardinality(DOMAIN keys) = 2

\* C26: the save of generate_api_key puts exactly one record more than the
\* call loaded into the key store, under an id the store did not hold, with
\* usage_count 0, is_active true, last_used null and the digest of the
\* returned secret as key_hash, and when the store has not changed since the
\* call loaded it every record stored before stays as it was.
C26_GenerateAddsOneRecord ==
    [][\A t \in PairThreads :
          (kpc[t] = "g_loaded" /\ kpc'[t] = "done") =>
              LET key_id == kret'[t].key_id
              IN /\ kret'[t].kind = "gen"
                 /\ key_id \notin DOMAIN keys /\ key_id \notin DOMAIN ksnap[t]
                 /\ DOMAIN keys' = (DOMAIN ksnap[t]) \cup {key_id}
                 /\ keys'[key_id].key_id = key_id
                 /\ keys'[key_id].usage_count = 0
                 /\ keys'[key_id].is_active
                 /\ keys'[key_id].last_used = NoTime
                 /\ keys'[key_id].owner_email = kcall[t].owner_email
                 /\ keys'[key_id].key_hash = _hash_key(kret'[t].api_key)
                 /\ ksnap[t] = keys =>
                        \A k \in DOMAIN keys : k \in DOMAIN keys' /\ keys'[k] = keys[k]
      ]_vars

\* generate_api_key has returned a second key while the first one, used
\* before, is stored with its count
C26_Witness ==
    \E t \in PairThreads :
        /\ kpc[t] = "done" /\ kcall[t].op = "generate" /\ kret[t].kind = "gen"
        /\ kret[t].key_id = 2
        /\ DOMAIN keys = {1, 2}
        /\ keys[1].usage_count > 0
        /\ keys[2].usage_count = 0

\* C29: while a backing file is missing or does not parse, the calls that
\* load it get the empty mapping and return their negative answer
\* (validate_api_key None, authenticate_user False, get_user_sessions [],
\* get_session None), and no such call changes the file.
C29_UnreadableFileLoadsEmpty ==
    [][/\ files.keys # "ok" =>
            /\ keys' = keys /\ files'.keys = files.keys
            /\ (kpc'[1] = "done" /\ kcall'[1].op = "validate") => kret'[1] = RetNone
       /\ files.users # "ok" =>
            /\ users' = users /\ files'.users = files.users
            /\ SessionCallDone(1, "authenticate_user")' => mret'[1] = MBool(FALSE)
            /\ SessionCallDone(1, "get_user_sessions")' => mret'[1] = MList(<<>>)
       /\ SessionCallDone(1, "get_session")' =>
            LET sid == mcall'[1].sid
            IN (sid \notin DOMAIN sessions \/ sid \in files.sessions) =>
                   /\ mret'[1] = MNone
                   /\ sessions' = sessions /\ files'.sessions = files.sessions
      ]_vars

\* with a users.json that does not parse, authenticate_user has refused
\* alice's own password, and with an api_keys.json that is missing
\* validate_api_key has refused the secret of a stored key
C29_Witness ==
    /\ files.users = "corrupt" /\ files.keys = "absent"
    /\ SessionCallDone(1, "authenticate_user")
    /\ mcall[1].email = "alice@x" /\ mcall[1].password = "pw1"
    /\ mret[1] = MBool(FALSE)
    /\ kpc[1] = "done" /\ kcall[1].op = "validate" /\ kcall[1].api_key = NewSecret(1)
    /\ kret[1] = RetNone

\* the listed ids whose file is there and parses, in the order of the list
Loadable(list) ==
    SelectSeq(list, LAMBDA sid : sid \in DOMAIN sessions /\ sid \notin files.sessions)

\* the positions of the user messages of a transcript
UserPositions(messages) == {i \in 1..Len(messages) : messages[i].role = "user"}

\* the preview owed for a transcript: empty without a user message, else the
\* content of the earliest one cut at 100 characters
PreviewOwed(messages, preview) ==
    IF UserPositions(messages) = {} THEN preview = <<>>
    ELSE LET i == CHOOSE j \in UserPositions(messages) :
                      \A h \in UserPositions(messages) : j <= h
             content == messages[i].content
         IN /\ Len(preview) = IF Len(content) > 100 THEN 100 ELSE Len(content)
            /\ \A c \in 1..Len(preview) : preview[c] = content[c]

\* C25: get_all_user_sessions_with_preview returns, in the order of the
\* owner's session list, one entry per listed id whose file loads, with the
\* number of messages as message_count and the first 100 characters of the
\* first user message as preview (empty without one); ids whose file is
\* missing or does not parse are skipped, and nothing is modified.
C25_PreviewPerLoadableSession ==
    SessionCallDone(1, "get_all_user_sessions_with_preview") =>
        LET email == mcall[1].email
            listed == IF email \in DOMAIN users THEN users[email].sessions ELSE <<>>
            owed == Loadable(listed)
            entries == mret[1].items
        IN /\ mret[1].kind = "list"
           /\ Len(entries) = Len(owed)
           /\ \A i \in 1..Len(owed) :
                  /\ entries[i].session_id = owed[i]
                  /\ entries[i].message_count = Len(sessions[owed[i]].messages)
                  /\ PreviewOwed(sessions[owed[i]].messages, entries[i].preview)
           /\ users = mcall[1].pre.users
           /\ sessions = mcall[1].pre.sessions

\* the call has returned two entries for three listed ids, the first file
\* damaged, one preview cut at 100 characters behind an assistant message
C25_Witness ==
    /\ SessionCallDone(1, "get_all_user_sessions_with_preview")
    /\ Len(users["alice@x"].sessions) = 3
    /\ files.sessions = {NewSessionId(1)}
    /\ Len(mret[1].items) = 2
    /\ \E i \in 1..2 :
           /\ Len(mret[1].items[i].preview) = PREVIEW_LENGTH
           /\ sessions[mret[1].items[i].session_id].messages[1].role = "assistant"

\* the tool call frames on the wire and the tool events yielded, in order
ToolCallFrames == SelectSeq(frames, LAMBDA f : f.kind = "tool_call")
ToolEvents == SelectSeq(chunks, IsToolEvent)

\* the tool result as text: the result, or "None" when the event has none
Rendered(c) == IF c.has_result THEN c.tool_result ELSE <<"N", "o", "n", "e">>

\* C27: the tool call frames are, one per ToolEvent and in order, the tool's
\* name with the first 500 characters of the tool result rendered as text,
\* so no preview is longer than 500 characters, and the accumulated answer
\* holds the texts of the deltas only, never a tool result.
C27_ToolPreviewBounded ==
    /\ Len(ToolCallFrames) = Len(ToolEvents)
    /\ \A i \in 1..Len(ToolEvents) :
           LET f == ToolCallFrames[i]
               text == Rendered(ToolEvents[i])
           IN /\ f.tool_name = ToolEvents[i].tool_name
              /\ Len(f.text) <= 500
              /\ Len(f.text) = IF Len(text) > 500 THEN 500 ELSE Len(text)
              /\ \A c \in 1..Len(f.text) : f.text[c] = text[c]
    /\ full_response = DeltaText(chunks)

\* a tool event with a result of 501 characters has been put on the wire cut
\* to 500, next to a delta that is in the accumulated answer
C27_Witness ==
    /\ \E i \in 1..Len(ToolEvents) :
           Len(ToolEvents[i].tool_result) > 500 /\ Len(ToolCallFrames[i].text) = 500
    /\ full_response # <<>>

EndedNormally == frames # <<>> /\ LastFrame.kind = "done"
EndedOnClose == exc = GeneratorExit

C31_DrainEndsWithProducer ==
    [][(spc = "drain" /\ spc' # "drain")
         => \/ spc' = AfterDrain(bridge, session_id) /\ exc' = NoExc
            \/ spc' = "except" /\ exc' = ProducerError]_vars

\* the active keys whose secret is api_key
ActiveKeysOf(api_key) ==
    {k \in DOMAIN keys : api_key = NewSecret(k) /\ keys[k].is_active}

\* C32: with one caller, validate_api_key on the secret of an active key
\* raises usage_count of exactly that key by one, sets its last_used,
\* returns that record with the new count and leaves every other record as
\* it was; on an empty secret, an unknown secret or the secret of a revoked
\* key it returns None and api_keys.json is not written.
C32_ValidateEffect ==
    [][/\ (kpc[1] \in {"idle", "done"} /\ ops' = ops + 1 /\ kcall'[1].op = "validate") =>
            /\ keys' = keys /\ files' = files /\ lastWrite' = lastWrite
            /\ kcall'[1].api_key = EmptySecret => kpc'[1] = "done" /\ kret'[1] = RetNone
       /\ (kpc[1] \in {"v_wait", "v_locked"}) =>
            keys' = keys /\ files' = files /\ lastWrite' = lastWrite
       /\ (kpc[1] = "v_loaded" /\ kpc'[1] = "done") =>
            LET m == ActiveKeysOf(kcall[1].api_key)
            IN IF m # {}
                 THEN \E k \in m :
                        /\ m = {k}
                        /\ keys' = [keys EXCEPT ![k].usage_count = keys[k].usage_count + 1,
                                                ![k].last_used = clock]
                        /\ keys'[k].last_used # NoTime
                        /\ kret'[1] = RetMeta(keys'[k])
                        /\ lastWrite' = [op |-> "validate", key_id |-> k]
                 ELSE /\ kret'[1] = RetNone
                      /\ keys' = keys /\ files' = files /\ lastWrite' = lastWrite
      ]_vars

\* validate_api_key has returned the metadata of a key used for the second
\* time while another key, never used, is stored
C32_Witness ==
    /\ kpc[1] = "done" /\ kcall[1].op = "validate" /\ kret[1].kind = "meta"
    /\ kret[1].data.usage_count = 2
    /\ \E k \in DOMAIN keys : k # kret[1].data.key_id /\ keys[k].usage_count = 0

\* C33: the validity check accepts an id handed to a session call if and
\* only if the id is non-empty, has at most 64 characters and each of its
\* characters is an ASCII letter, a digit, a dash or an underscore.
C33_ValidIffCharsetAndLength ==
    \A t \in MThreads :
        mcall[t].op \in {"get_session", "get_conversation_history", "save_session",
                         "add_message", "delete_session"} =>
            (_is_valid_session_id(mcall[t].sid)
                <=> /\ mcall[t].sid # <<>>
                    /\ Len(mcall[t].sid) <= SESSION_ID_MAX_LEN
                    /\ CharsetOnly(mcall[t].sid))

\* C34: in every session file, each assistant message a chat request wrote
\* comes directly after the user message of that request, however the chat
\* requests on that session id interleave.
C34_AssistantFollowsOwnUser ==
    \A sid \in DOMAIN sessions : \A t \in MThreads :
        LET messages == sessions[sid].messages
        IN \A i \in 1..Len(messages) :
              messages[i] = [role |-> "assistant", content |-> ChatAnswer(t)] =>
                  /\ i > 1
                  /\ messages[i - 1] = [role |-> "user", content |-> ChatQuestion(t)]

\* delete_session(sid, owner) has just returned True
DeletedTrue(sid) ==
    /\ SessionCallDone(1, "delete_session")
    /\ mcall[1].sid = sid
    /\ mret[1] = MBool(TRUE)

\* C35: once delete_session has returned True for a session, get_session on
\* its id returns None in every later state, whatever add_message calls on
\* that id follow.  Alice's sessions exist from the start and no id is drawn
\* twice, so the file of one of them is taken away only by a delete_session
\* that returns True (first conjunct), and from then on get_session must
\* keep returning None (second conjunct).
C35_DeletedStaysDeleted ==
    [][\A i \in 1..Len(AliceSessions) :
          LET sid == AliceSessions[i]
          IN /\ (get_session(sessions, sid) # <<>> /\ get_session(sessions', sid) = <<>>)
                    => DeletedTrue(sid)'
             /\ get_session(sessions, sid) = <<>> => get_session(sessions', sid) = <<>>
      ]_vars

\* C36: between calls made one after another, every id in a user's session
\* list names an existing session file whose user_email is that user,
\* whichever user_email argument the delete_session calls were given.
C36_SessionListsReferToOwnFiles ==
    mpc[1] \in {"idle", "done"} =>
        \A email \in DOMAIN users :
            \A i \in 1..Len(users[email].sessions) :
                LET sid == users[email].sessions[i]
                IN /\ sid \in DOMAIN sessions
                   /\ sessions[sid].user_email = email

\* C37: when two delete_session calls on the same existing session id
\* overlap (each found the file in place when it started), one returns True
\* and the other returns False, and neither ends with an error.
C37_OneDeleteWins ==
    \A t, u \in MThreads :
        (/\ t # u
         /\ SessionCallDone(t, "delete_session") /\ SessionCallDone(u, "delete_session")
         /\ mcall[t].sid = mcall[u].sid
         /\ mcall[t].sid \in DOMAIN mcall[t].pre.sessions
         /\ mcall[u].sid \in DOMAIN mcall[u].pre.sessions) =>
            {mret[t], mret[u]} = {MBool(TRUE), MBool(FALSE)}

\* C38: every log_interaction call adds one record to analytics.json and
\* removes none: once the calls made by the request threads have all
\* returned, the file holds as many records as calls were made.
C38_OneRecordPerCall ==
    (\A t \in MThreads : mpc[t] \in {"idle", "done"}) => Len(analytics) = mops

\* the producer of an API chat request has been drained to exhaustion
ApiDrained == bridge = "api" /\ spc \notin {"start", "drain"} /\ exc # ProducerError /\ exc # GeneratorExit

C40_AddMessageEffect ==
    [][/\ (mpc[1] \in {"idle", "done"} /\ mops' = mops + 1 /\ mcall'[1].op = "add_message") =>
            users' = users /\ sessions' = sessions /\ files' = files
       /\ (mpc[1] = "am_loaded" /\ mpc'[1] = "done" /\ _is_valid_session_id(mcall[1].sid)) =>
            LET sid == mcall[1].sid
                message == [role |-> mcall[1].role, content |-> mcall[1].content]
            IN /\ users' = users
               /\ DOMAIN sessions' = DOMAIN sessions \cup {sid}
               /\ \A x \in DOMAIN sessions \ {sid} : sessions'[x] = sessions[x]
               /\ files'.sessions = files.sessions \ {sid}
               /\ IF sid \notin DOMAIN sessions \/ sid \in files.sessions
                    THEN sessions'[sid] = [session_id |-> sid, user_email |-> "None",
                                           messages |-> <<message>>]
                    ELSE /\ sessions'[sid] =
                                [sessions[sid] EXCEPT !.messages = @ \o <<message>>]
                         /\ "created_at" \in DOMAIN sessions[sid] =>
                                sessions'[sid].created_at = sessions[sid].created_at
      ]_vars

\* add_message has returned on a session of alice whose file did not parse:
\* the file now holds the shell record with the one message, while her other
\* session, whose file parsed, has kept owner and creation time
C40_Witness ==
    /\ SessionCallDone(1, "add_message") /\ mret[1] = MNone
    /\ mcall[1].sid = NewSessionId(1)
    /\ mcall[1].pre.sessions[NewSessionId(1)].user_email = "alice@x"
    /\ sessions[NewSessionId(1)] =
           [session_id |-> NewSessionId(1), user_email |-> "None",
            messages |-> <<[role |-> mcall[1].role, content |-> mcall[1].content]>>]
    /\ sessions[NewSessionId(2)].user_email = "alice@x"
    /\ Len(sessions[NewSessionId(2)].messages) = 1
    /\ sessions[NewSessionId(2)].created_at = 2
====
